---- MODULE Spec2Model ----
(***************************************************************************)
(* A model of siliconcompiler/core.py: the run orchestrator (Chip.run),    *)
(* the per-task runner (Chip._runtask_safe, Chip._runtask, Chip._haltstep),*)
(* the built-in selectors and the schema accessors (Chip._search).         *)
(***************************************************************************)
EXTENDS Integers, Sequences, FiniteSets, TLC

(***************************************************************************)
(* Bounds of the model.                                                    *)
(***************************************************************************)
\* metric 'real' values produced by a tool range over 0..MaxMetric
MaxMetric == 1

\* the longest list value a schema parameter holds in the model
MaxListLen == 2

(***************************************************************************)
(* Small helpers.                                                          *)
(***************************************************************************)
Range(s) == {s[i] : i \in 1..Len(s)}

InSeq(x, s) == \E i \in 1..Len(s) : s[i] = x

\* Python dict read d[k]; the caller guards with HasKey (KeyError otherwise)
HasKey(d, k) == k \in DOMAIN d

\* Python dict write d[k] = v
DictSet(d, k, v) == (k :> v) @@ d

\* an unset value (None) is <<>>, a set value v is <<v>>
None == <<>>

Some(v) == <<v>>

(***************************************************************************)
(* Flowgraphs: the content of flowgraph/<flow>/<step>/<index>/{tool,input, *)
(* weight} and metric/<step>/<index>/<m>/goal as built with node() and     *)
(* edge().  A node is <<step, index>>, both strings.                       *)
(***************************************************************************)
FlowNames == {"asicflow", "signoff", "doe", "ctsflow"}

VARIABLES
    graph,      \* flowgraph/graph as node() and edge() calls built it:
                \* [nodes, tool, input]
    gres,       \* the last call on that flowgraph and what it returned
    sel,        \* the flow 'sel' of a selection: the weights and goals set on
                \* its nodes, the schema of the selecting task, and the last
                \* minimum/maximum/verify call: [weight, goal, c, op,
                \* steps, res, assertion, ok]
    hs,         \* a list-typed file parameter and the last call on it:
                \* [kind, value, filehash, err, op, raised, mismatch]
    pr          \* a nested schema and what _prune returned for it:
                \* [cfg, keeplists, op, res]

graphvars == <<graph, gres, sel, hs, pr>>

\* a schema dictionary of any depth: the keypaths of its branches and, for
\* each keypath of a leaf, the leaf
NoTree == [branches |-> {}, leaves |-> <<>>]

\* no _prune call
NoPrune == [cfg |-> NoTree, keeplists |-> FALSE, op |-> "none", res |-> NoTree]

\* no file parameter
NoHash == [kind |-> "", value |-> <<>>, filehash |-> <<>>, err |-> 0, op |-> "none",
           raised |-> FALSE, mismatch |-> FALSE]

\* no flow 'sel'
NoSel == [weight |-> <<>>, goal |-> <<>>, c |-> <<>>, op |-> "none",
          steps |-> <<>>, res |-> <<>>, assertion |-> <<>>, ok |-> TRUE]

\* no node() and no edge() call yet
EmptyGraph == [nodes |-> <<>>, tool |-> <<>>, input |-> <<>>]

NoRes == [op |-> "none", node |-> <<"", "">>, steps |-> <<>>, files |-> {},
          ok |-> TRUE, raised |-> FALSE]

\* nodes in dictionary (insertion) order
FlowNodes(f) ==
    CASE f = "asicflow" -> << <<"import","0">>, <<"syn","0">>, <<"syn","1">>,
                              <<"synmin","0">>, <<"place","0">> >>
      [] f = "signoff"  -> << <<"import","0">>, <<"drc","0">>, <<"lvs","0">>,
                              <<"signoff","0">>, <<"chk","0">> >>
      [] f = "doe"      -> << <<"import","0">>, <<"syn","10">>, <<"syn1","0">>,
                              <<"pack","0">> >>
      [] f = "ctsflow"  -> << <<"import","0">>, <<"cts","0">>, <<"cts","1">>,
                              <<"ctsmax","0">>, <<"pick","0">> >>
      [] f = "dangle"   -> << <<"import","0">>, <<"syn","0">>, <<"pack","0">>,
                              <<"pack","1">> >>
      [] f = "sel"      -> << <<"place","0">>, <<"place","1">>, <<"pick","0">> >>
      [] f = "passflow" -> << <<"import","0">>, <<"syn","0">>, <<"pass","0">>,
                              <<"pack","0">> >>
      [] OTHER          -> graph.nodes

FlowNodeSet(f) == Range(FlowNodes(f))

AllNodes == UNION {FlowNodeSet(f) : f \in FlowNames}

\* self.builtin
builtin == {"minimum", "maximum", "nop", "mux", "join", "verify"}

\* flowgraph/<flow>/<step>/<index>/tool
FlowTool(f, n) ==
    CASE f = "asicflow" /\ n = <<"import","0">> -> "surelog"
      [] f = "asicflow" /\ n[1] = "syn"         -> "yosys"
      [] f = "asicflow" /\ n[1] = "synmin"      -> "minimum"
      [] f = "asicflow" /\ n[1] = "place"       -> "openroad"
      [] f = "signoff"  /\ n[1] = "import"      -> "nop"
      [] f = "signoff"  /\ n[1] = "drc"         -> "magic"
      [] f = "signoff"  /\ n[1] = "lvs"         -> "netgen"
      [] f = "signoff"  /\ n[1] = "signoff"     -> "join"
      [] f = "signoff"  /\ n[1] = "chk"         -> "verify"
      [] f = "doe"      /\ n[1] = "import"      -> "surelog"
      [] f = "doe"      /\ n[1] = "syn"         -> "yosys"
      [] f = "doe"      /\ n[1] = "syn1"        -> "yosys"
      [] f = "doe"      /\ n[1] = "pack"        -> "join"
      [] f = "ctsflow"  /\ n[1] = "import"      -> "nop"
      [] f = "ctsflow"  /\ n[1] = "cts"         -> "openroad"
      [] f = "ctsflow"  /\ n[1] = "ctsmax"      -> "maximum"
      [] f = "ctsflow"  /\ n[1] = "pick"        -> "mux"
      [] f = "dangle"   /\ n[1] = "import"      -> "surelog"
      [] f = "dangle"   /\ n[1] = "syn"         -> "yosys"
      [] f = "dangle"   /\ n[1] = "pack"        -> "join"
      [] f = "sel"      /\ n[1] = "place"       -> "openroad"
      [] f = "sel"      /\ n[1] = "pick"        -> "minimum"
      [] f = "passflow" /\ n[1] = "import"      -> "surelog"
      [] f = "passflow" /\ n[1] = "syn"         -> "yosys"
      [] f = "passflow" /\ n[1] = "pass"        -> "nop"
      [] f = "passflow" /\ n[1] = "pack"        -> "join"
      [] f = "graph"    /\ n \in DOMAIN graph.tool -> graph.tool[n]
      [] OTHER -> "none"

\* flowgraph/<flow>/<step>/<index>/input, in the order of the edge() calls;
\* a key that is not a declared node reads as the empty default
FlowInput(f, n) ==
    CASE f = "asicflow" /\ n[1] = "syn"     -> << <<"import","0">> >>
      [] f = "asicflow" /\ n[1] = "synmin"  -> << <<"syn","0">>, <<"syn","1">> >>
      [] f = "asicflow" /\ n[1] = "place"   -> << <<"synmin","0">> >>
      [] f = "signoff"  /\ n[1] = "drc"     -> << <<"import","0">> >>
      [] f = "signoff"  /\ n[1] = "lvs"     -> << <<"import","0">> >>
      [] f = "signoff"  /\ n[1] = "signoff" -> << <<"drc","0">>, <<"lvs","0">> >>
      [] f = "signoff"  /\ n[1] = "chk"     -> << <<"signoff","0">> >>
      [] f = "doe"      /\ n = <<"syn","10">> -> << <<"import","0">> >>
      [] f = "doe"      /\ n = <<"syn1","0">> -> << <<"import","0">> >>
      [] f = "doe"      /\ n[1] = "pack"    -> << <<"syn","10">> >>
      [] f = "ctsflow"  /\ n[1] = "cts"     -> << <<"import","0">> >>
      [] f = "ctsflow"  /\ n[1] = "ctsmax"  -> << <<"cts","0">>, <<"cts","1">> >>
      [] f = "ctsflow"  /\ n[1] = "pick"    -> << <<"ctsmax","0">> >>
      [] f = "dangle"   /\ n[1] = "syn"     -> << <<"import","0">> >>
      [] f = "dangle"   /\ n = <<"pack","0">> -> << <<"syn","0">> >>
      [] f = "dangle"   /\ n = <<"pack","1">> -> << <<"syn","0">>, <<"rout","0">> >>
      [] f = "sel"      /\ n[1] = "pick"    -> << <<"place","0">>, <<"place","1">> >>
      [] f = "passflow" /\ n[1] = "syn"     -> << <<"import","0">> >>
      [] f = "passflow" /\ n[1] = "pass"    -> << <<"syn","0">> >>
      [] f = "passflow" /\ n[1] = "pack"    -> << <<"pass","0">> >>
      [] f = "graph"    /\ n \in DOMAIN graph.input -> graph.input[n]
      [] OTHER -> <<>>

\* the metric names of the schema (metric/default/default/<m>)
Metrics == <<"errors">>

\* flowgraph/<flow>/<step>/<index>/weight/<m>: node() installs 0 on every
\* node, the flow then sets the weight on the selecting node
FlowWeight(f, n, m) ==
    IF f = "sel" THEN sel.weight[n]
    ELSE IF n[1] \in {"synmin", "ctsmax"} THEN 1 ELSE 0

\* metric/<step>/<index>/<m>/goal as set by the flow
FlowGoal(f, n, m) ==
    IF f = "sel" THEN sel.goal[n]
    ELSE IF n[1] \in {"syn", "cts"} THEN Some(0) ELSE None

\* the key of a node in the shared active and error dictionaries
stepstr(n) == n[1] \o n[2]


(***************************************************************************)
(* list_steps: steps sorted by the longest path from <step>/0 to a root;   *)
(* Python's sorted() is stable, so ties keep the dictionary order.         *)
(***************************************************************************)
Max(a, b) == IF a >= b THEN a ELSE b

RECURSIVE MaxOver(_, _, _)
\* the largest Op-value (1 + depth) over the inputs ins[i..]
MaxOver(f, ins, i) ==
    IF i > Len(ins) THEN 0
    ELSE Max(1 + MaxOver(f, FlowInput(f, ins[i]), 1), MaxOver(f, ins, i + 1))

\* the length of the longest path _allpaths returns for (step, index)
PathDepth(f, n) == MaxOver(f, FlowInput(f, n), 1)

RECURSIVE Dedup(_)
\* the steps of a node sequence, first occurrences, in order
Dedup(ns) ==
    IF ns = <<>> THEN <<>>
    ELSE LET rest == Dedup(SubSeq(ns, 1, Len(ns) - 1))
             s    == ns[Len(ns)][1]
         IN  IF InSeq(s, rest) THEN rest ELSE Append(rest, s)

\* getkeys('flowgraph', flow)
FlowSteps(f) == Dedup(FlowNodes(f))

RECURSIVE InsertByDepth(_, _, _)
\* stable insertion of step s into the depth-sorted sequence sorted
InsertByDepth(f, sorted, s) ==
    IF sorted = <<>> THEN <<s>>
    ELSE LET last == sorted[Len(sorted)]
         IN  IF PathDepth(f, <<last, "0">>) <= PathDepth(f, <<s, "0">>)
             THEN Append(sorted, s)
             ELSE Append(InsertByDepth(f, SubSeq(sorted, 1, Len(sorted) - 1), s), last)

RECURSIVE SortSteps(_, _)
SortSteps(f, steps) ==
    IF steps = <<>> THEN <<>>
    ELSE InsertByDepth(f, SortSteps(f, SubSeq(steps, 1, Len(steps) - 1)),
                       steps[Len(steps)])

list_steps(f) == SortSteps(f, FlowSteps(f))

\* indexlist[step] = getkeys('flowgraph', flow, step): the declared indices
\* of the step, as nodes, in dictionary order
RECURSIVE NodesOfStep(_, _)
NodesOfStep(ns, s) ==
    IF ns = <<>> THEN <<>>
    ELSE LET rest == NodesOfStep(SubSeq(ns, 1, Len(ns) - 1), s)
         IN  IF ns[Len(ns)][1] = s THEN Append(rest, ns[Len(ns)]) ELSE rest

\* the active slice: step in steplist and index in indexlist[step]
ActiveSlice(f, sl) == {n \in FlowNodeSet(f) : InSeq(n[1], sl)}


(***************************************************************************)
(* The part of a schema the runner and the selectors read and write:       *)
(*   flowstatus[n]  flowstatus/<step>/<index>/error   (None or Some(0|1))  *)
(*   select[n]      flowstatus/<step>/<index>/select  (sequence of nodes)  *)
(*   metric[n][m]   metric/<step>/<index>/<m>/real    (None or Some(v))    *)
(***************************************************************************)
Abs(x) == IF x < 0 THEN 0 - x ELSE x

Min(a, b) == IF a <= b THEN a ELSE b

\* float('inf') in comparisons with the metric values of the model
Inf == 1000000

\* a fresh schema: nothing set
EmptyCfg(f) ==
    [flowstatus |-> [n \in FlowNodeSet(f) |-> None],
     select     |-> [n \in FlowNodeSet(f) |-> <<>>],
     metric     |-> [n \in FlowNodeSet(f) |-> [m \in Range(Metrics) |-> None]]]

(***************************************************************************)
(* _minmax(steps, op): the winner and its score among the inputs.         *)
(* The result is [exc, winner, inf, num, den]: exc when the code raises,   *)
(* winner None or Some(node), the score num/den, or +/-infinity (inf = 1   *)
(* or -1) when no input was scored.                                        *)
(***************************************************************************)
\* a first loop that looks at the error flag alone
FailedOnError(f, c, n) == c.flowstatus[n] # None /\ c.flowstatus[n][1] # 0

\* failed[step][index] of the first loop
Failed(f, c, n) ==
    IF c.flowstatus[n] # None /\ c.flowstatus[n][1] # 0
    THEN TRUE
    ELSE \E i \in 1..Len(Metrics) :
            /\ FlowGoal(f, n, Metrics[i]) # None
            /\ c.metric[n][Metrics[i]] # None
            /\ Abs(c.metric[n][Metrics[i]][1]) > FlowGoal(f, n, Metrics[i])[1]

\* abs(None) > goal raises TypeError
FailedRaises(f, c, n) ==
    /\ ~(c.flowstatus[n] # None /\ c.flowstatus[n][1] # 0)
    /\ \E i \in 1..Len(Metrics) :
          FlowGoal(f, n, Metrics[i]) # None /\ c.metric[n][Metrics[i]] = None

\* the steps/indices that take part in the normalisation and the scoring
Eligible(f, c, steps) == {i \in 1..Len(steps) : ~Failed(f, c, steps[i])}

\* the metrics of the min/max loop: the weight keys of <last step>/0
MinmaxMetricKeys(f, steps) ==
    IF <<steps[Len(steps)][1], "0">> \in FlowNodeSet(f) THEN Metrics ELSE <<>>

RECURSIVE MaxVal(_, _, _, _)
\* max_val[metric]: starts at 0, max with every eligible real
MaxVal(c, steps, elig, m) ==
    IF steps = <<>> THEN 0
    ELSE LET k    == Len(steps)
             rest == MaxVal(c, SubSeq(steps, 1, k - 1), elig, m)
         IN  IF k \in elig THEN Max(rest, c.metric[steps[k]][m][1]) ELSE rest

RECURSIVE MinVal(_, _, _, _)
\* min_val[metric]: starts at inf, min with every eligible real
MinVal(c, steps, elig, m) ==
    IF steps = <<>> THEN Inf
    ELSE LET k    == Len(steps)
             rest == MinVal(c, SubSeq(steps, 1, k - 1), elig, m)
         IN  IF k \in elig THEN Min(rest, c.metric[steps[k]][m][1]) ELSE rest

\* max_val[metric] - min_val[metric]
MetricRange(c, steps, elig, m) == MaxVal(c, steps, elig, m) - MinVal(c, steps, elig, m)

RECURSIVE ScoreDen(_, _, _, _)
\* the common denominator of the scores: the product of the non-zero ranges
ScoreDen(c, steps, elig, ms) ==
    IF ms = <<>> THEN 1
    ELSE LET r == MetricRange(c, steps, elig, ms[Len(ms)])
         IN  (IF r = 0 THEN 1 ELSE r) * ScoreDen(c, steps, elig, SubSeq(ms, 1, Len(ms) - 1))

\* a scoring loop that weighs every metric by 1
ScoreWeightUnit(f, cur, n, m) == 1

\* the weight the scoring loop reads for candidate n and metric m
ScoreWeight(f, cur, n, m) == FlowWeight(f, n, m)

RECURSIVE ScoreNum(_, _, _, _, _, _, _)
\* score * ScoreDen for candidate n: the sum over the metrics ms of
\* weight * scaled, where scaled = (real - min) / (max - min), or max when
\* the range is 0; a zero weight is skipped
ScoreNum(f, cur, c, steps, elig, n, ms) ==
    IF ms = <<>> THEN 0
    ELSE LET m    == ms[Len(ms)]
             rest == ScoreNum(f, cur, c, steps, elig, n, SubSeq(ms, 1, Len(ms) - 1))
             w    == ScoreWeight(f, cur, n, m)
             r    == MetricRange(c, steps, elig, m)
             den  == ScoreDen(c, steps, elig, Metrics)
         IN  IF w = 0 THEN rest
             ELSE IF r # 0
                  THEN rest + w * (c.metric[n][m][1] - MinVal(c, steps, elig, m)) * (den \div r)
                  ELSE rest + w * MaxVal(c, steps, elig, m) * den

\* the scoring loop raises when a weighted metric has no real value or no
\* min/max entry
ScoreRaises(f, cur, c, steps, elig) ==
    \E k \in elig : \E i \in 1..Len(Metrics) :
        /\ ScoreWeight(f, cur, steps[k], Metrics[i]) # 0
        /\ \/ c.metric[steps[k]][Metrics[i]] = None
           \/ ~InSeq(Metrics[i], MinmaxMetricKeys(f, steps))

\* the min/max loop raises on a real value of None
RangeRaises(f, c, steps, elig) ==
    \E k \in elig : \E i \in 1..Len(MinmaxMetricKeys(f, steps)) :
        c.metric[steps[k]][MinmaxMetricKeys(f, steps)[i]] = None

RECURSIVE Pick(_, _, _, _, _, _, _)
\* the selection loop over steps[1..k]: [winner, inf, num]
Pick(f, cur, c, steps, elig, op, k) ==
    IF k = 0 THEN [winner |-> None, inf |-> IF op = "minimum" THEN 1 ELSE -1, num |-> 0]
    ELSE LET best  == Pick(f, cur, c, steps, elig, op, k - 1)
             score == ScoreNum(f, cur, c, steps, elig, steps[k], Metrics)
             wins  == IF op = "minimum"
                      THEN best.inf = 1 \/ (best.inf = 0 /\ score < best.num)
                      ELSE best.inf = -1 \/ (best.inf = 0 /\ score > best.num)
         IN  IF k \notin elig THEN best
             ELSE IF wins THEN [winner |-> Some(steps[k]), inf |-> 0, num |-> score]
             ELSE best

_minmax(f, cur, c, steps, op) ==
    LET elig == Eligible(f, c, steps)
    IN  IF \/ steps = <<>>
           \/ \E k \in 1..Len(steps) : FailedRaises(f, c, steps[k])
           \/ RangeRaises(f, c, steps, elig)
           \/ ScoreRaises(f, cur, c, steps, elig)
        THEN [exc |-> TRUE, winner |-> None, inf |-> 0, num |-> 0, den |-> 1]
        ELSE LET p == Pick(f, cur, c, steps, elig, op, Len(steps))
             IN  [exc |-> FALSE, winner |-> p.winner, inf |-> p.inf, num |-> p.num,
                  den |-> ScoreDen(c, steps, elig, Metrics)]

minimum(f, cur, c, tasks) == _minmax(f, cur, c, tasks, "minimum")

maximum(f, cur, c, tasks) == _minmax(f, cur, c, tasks, "maximum")

\* join(tasks): the input list
join(tasks) == tasks

\* nop(task): the input list
nop(task) == task

\* verify(tasks, assertion): "TODO: implement", returns True
verify(tasks) == TRUE


(***************************************************************************)
(* The schema store: set(), add() and get() on a leaf parameter, as        *)
(* _search carries them out.                                               *)
(*                                                                         *)
(* A Python value is [t, b, i, s, xs]: t is type(value).__name__, and the  *)
(* content is in b (bool), i (int), s (str) or xs (tuple or list items).   *)
(* A str is a sequence of one-character strings, so that str(), repr() and *)
(* the regular expressions of get() are computed character by character.   *)
(* The strings of the model hold no quote, backslash or control character  *)
(* (repr() would escape those) and no sign, dot or exponent.               *)
(***************************************************************************)
Py(t, b, i, s, xs) == [t |-> t, b |-> b, i |-> i, s |-> s, xs |-> xs]

PyNone == Py("NoneType", FALSE, 0, <<>>, <<>>)

PyBool(b) == Py("bool", b, 0, <<>>, <<>>)

PyInt(i) == Py("int", FALSE, i, <<>>, <<>>)

PyStr(s) == Py("str", FALSE, 0, s, <<>>)

PyTuple(xs) == Py("tuple", FALSE, 0, <<>>, xs)

PyList(xs) == Py("list", FALSE, 0, <<>>, xs)

\* the call raised an exception instead of returning
Raised == Py("raise", FALSE, 0, <<>>, <<>>)

Digits == <<"0", "1", "2", "3", "4", "5", "6", "7", "8", "9">>

RECURSIVE IntStr(_)
\* str(i) for an int i >= 0
IntStr(i) ==
    IF i < 10 THEN <<Digits[i + 1]>>
    ELSE Append(IntStr(i \div 10), Digits[(i % 10) + 1])

\* the string is an unsigned decimal literal
IsDigits(s) == s # <<>> /\ \A i \in 1..Len(s) : s[i] \in Range(Digits)

DigitVal(c) == CHOOSE d \in 0..9 : Digits[d + 1] = c

RECURSIVE StrInt(_)
\* int(s) for an unsigned decimal literal s
StrInt(s) ==
    IF s = <<>> THEN 0
    ELSE 10 * StrInt(SubSeq(s, 1, Len(s) - 1)) + DigitVal(s[Len(s)])

RECURSIVE PyStrOf(_)
RECURSIVE PyRepr(_)
RECURSIVE JoinRepr(_)
\* repr(x1) + ', ' + repr(x2) + ...
JoinRepr(xs) ==
    IF xs = <<>> THEN <<>>
    ELSE IF Len(xs) = 1 THEN PyRepr(xs[1])
    ELSE JoinRepr(SubSeq(xs, 1, Len(xs) - 1)) \o <<",", " ">> \o PyRepr(xs[Len(xs)])

\* str(value)
PyStrOf(x) ==
    CASE x.t = "NoneType" -> <<"N", "o", "n", "e">>
      [] x.t = "bool"     -> IF x.b THEN <<"T", "r", "u", "e">>
                             ELSE <<"F", "a", "l", "s", "e">>
      [] x.t = "int"      -> IntStr(x.i)
      [] x.t = "str"      -> x.s
      [] x.t = "tuple"    -> <<"(">> \o JoinRepr(x.xs)
                             \o (IF Len(x.xs) = 1 THEN <<",">> ELSE <<>>) \o <<")">>
      [] OTHER            -> <<"[">> \o JoinRepr(x.xs) \o <<"]">>

\* repr(value): a str is quoted
PyRepr(x) ==
    IF x.t = "str" THEN <<"'">> \o x.s \o <<"'">> ELSE PyStrOf(x)

RECURSIVE ReSub(_, _)
\* re.sub('[<chars>]', '', s): the characters of the class are removed
ReSub(chars, s) ==
    IF s = <<>> THEN <<>>
    ELSE LET rest == ReSub(chars, SubSeq(s, 1, Len(s) - 1))
         IN  IF s[Len(s)] \in chars THEN rest ELSE Append(rest, s[Len(s)])

RECURSIVE Split(_)
\* s.split(','), as a sequence of PyStr
Split(s) ==
    IF \A i \in 1..Len(s) : s[i] # ","
    THEN <<PyStr(s)>>
    ELSE LET last == CHOOSE i \in 1..Len(s) :
                         s[i] = "," /\ \A j \in (i + 1)..Len(s) : s[j] # ","
         IN  Append(Split(SubSeq(s, 1, last - 1)), PyStr(SubSeq(s, last + 1, Len(s))))

\* the character classes of the two tuple expressions of get(): \s is the
\* blank here
TupleStrChars == {"(", ")", "'", " "}

\* the 'type' strings of the parameters of the model
ParamTypes == <<"str", "int", "bool", "[str]", "[int]", "[(str,str)]">>

\* re.match(r'\[', type)
IsListType(ty) == ty \in {"[str]", "[int]", "[(str,str)]"}

\* re.sub(r'[\[\]]', '', type)
ElemType(ty) ==
    CASE ty = "[str]"       -> "str"
      [] ty = "[int]"       -> "int"
      [] ty = "[(str,str)]" -> "(str,str)"
      [] OTHER              -> ty

\* re.match(r'\([\w\,]+\)', cfgtype), re.search(r'\(', type)
IsTupleType(ty) == ElemType(ty) = "(str,str)"

\* a leaf parameter: the fields the model follows
Leaf(ty) == [type |-> ty, lock |-> "false", value |-> IF IsListType(ty) THEN PyList(<<>>) ELSE PyNone]

\* empty = [None, 'null', [], 'false']
empty == <<PyNone, PyStr(<<"n", "u", "l", "l">>), PyList(<<>>),
           PyStr(<<"f", "a", "l", "s", "e">>)>>

\* int(item) succeeds
IntOk(x) ==
    \/ x.t \in {"int", "bool"}
    \/ x.t = "str" /\ IsDigits(x.s)

\* _typecheck(cfg, leafkey, value): the ok flag
_typecheck(p, value) ==
    IF ~IsListType(p.type) /\ value.t = "list" THEN FALSE
    ELSE LET valuelist == IF value.t = "list" THEN value.xs ELSE <<value>>
             cfgtype   == ElemType(p.type)
         IN  \A i \in 1..Len(valuelist) :
                LET item == valuelist[i]
                IN  \/ cfgtype = item.t
                    \/ item.t = "NoneType"
                    \/ IsTupleType(cfgtype)
                    \/ cfgtype = "bool" /\ item.t = "str"
                          /\ item.s \in {<<"t", "r", "u", "e">>, <<"f", "a", "l", "s", "e">>}
                    \/ cfgtype = "int" /\ IntOk(item)

\* val == True, val == False: Python compares 1 and 0 equal to them
PyEqBool(x, b) ==
    \/ x.t = "bool" /\ x.b = b
    \/ x.t = "int" /\ x.i = (IF b THEN 1 ELSE 0)

\* "converting python True/False to lower case string"
BoolToStr(p, field, val) ==
    IF field = "value" /\ p.type = "bool"
    THEN IF PyEqBool(val, TRUE) THEN PyStr(<<"t", "r", "u", "e">>)
         ELSE IF PyEqBool(val, FALSE) THEN PyStr(<<"f", "a", "l", "s", "e">>)
         ELSE val
    ELSE val

\* list(map(str, val))
MapStr(xs) == [i \in 1..Len(xs) |-> PyStr(PyStrOf(xs[i]))]

\* the result of a write: the parameter and whether self.error was raised
Written(p, err) == [p |-> p, err |-> err]

\* the value set() stores for val in the 'value' field
StoredValue(p, val) ==
    LET list_type == IsListType(p.type)
    IN  IF ~list_type /\ val.t = "NoneType" THEN PyNone
        ELSE IF ~list_type /\ val.t # "list" THEN PyStr(PyStrOf(val))
        ELSE IF list_type /\ val.t # "list" THEN PyList(<<PyStr(PyStrOf(val))>>)
        ELSE IF IsTupleType(p.type) THEN PyList(MapStr(val.xs))
        ELSE val

\* selval in empty
InEmpty(selval) == InSeq(selval, empty)

\* a set that does not look at the lock field
SetLeafNoLock(p, field, val0, clobber) ==
    LET val == BoolToStr(p, field, val0)
    IN  IF field = "lock"
        THEN Written([p EXCEPT !.lock = IF val = PyBool(TRUE) THEN "true" ELSE "false"], FALSE)
        ELSE Written([p EXCEPT !.value = StoredValue(p, val)], FALSE)

\* mode == 'set' on the leaf p (the lines after the typecheck)
SetLeaf(p, field, val0, clobber) ==
    LET type_ok == field # "value" \/ _typecheck(p, val0)
        val     == BoolToStr(p, field, val0)
        selval  == p.value
    IN  IF p.lock = "true" THEN Written(p, ~type_ok)
        ELSE IF ~(InEmpty(selval) \/ clobber) THEN Written(p, ~type_ok)
        ELSE IF field = "lock"
        THEN IF val = PyBool(TRUE) THEN Written([p EXCEPT !.lock = "true"], ~type_ok)
             ELSE IF val = PyBool(FALSE) THEN Written([p EXCEPT !.lock = "false"], ~type_ok)
             ELSE Written(p, TRUE)
        ELSE IF ~IsListType(p.type) /\ val.t = "list" THEN Written(p, TRUE)
        ELSE Written([p EXCEPT !.value = StoredValue(p, val)], ~type_ok)

\* mode == 'add' on the leaf p, field 'value'
AddLeaf(p, val0) ==
    LET type_ok == _typecheck(p, val0)
        val     == BoolToStr(p, "value", val0)
    IN  IF p.lock = "true" THEN Written(p, ~type_ok)
        ELSE IF IsListType(p.type) /\ val.t # "list"
        THEN Written([p EXCEPT !.value = PyList(Append(@.xs, PyStr(PyStrOf(val))))], ~type_ok)
        ELSE IF IsListType(p.type)
        THEN Written([p EXCEPT !.value = PyList(@.xs \o val.xs)], ~type_ok)
        ELSE Written(p, TRUE)

\* a write through a new key that writes into the template itself and binds
\* the new key to it (no copy)
SearchWriteAlias(c, k, mode, field, val, clobber) ==
    IF k \notin DOMAIN c /\ "default" \notin DOMAIN c
    THEN [cfg |-> c, err |-> TRUE]
    ELSE LET src == IF k \in DOMAIN c THEN k ELSE "default"
             w   == IF mode = "set" THEN SetLeaf(c[src], field, val, clobber)
                    ELSE AddLeaf(c[src], val)
         IN  [cfg |-> (k :> w.p) @@ [c EXCEPT ![src] = w.p], err |-> w.err]

\* _search in mode set/add at the leaf: the schema after the call and
\* whether self.error was raised
SearchWrite(c, k, mode, field, val, clobber) ==
    IF k \notin DOMAIN c /\ "default" \notin DOMAIN c
    THEN [cfg |-> c, err |-> TRUE]
    ELSE LET inst == IF k \in DOMAIN c THEN c ELSE (k :> c["default"]) @@ c
             w    == IF mode = "set" THEN SetLeaf(inst[k], field, val, clobber)
                     ELSE AddLeaf(inst[k], val)
         IN  [cfg |-> [inst EXCEPT ![k] = w.p], err |-> w.err]

\* the conversion of one item of a list value in get()
GetItem(sctype, item) ==
    CASE sctype = "int" ->
             IF item.t = "int" THEN item
             ELSE IF item.t = "bool" THEN PyInt(IF item.b THEN 1 ELSE 0)
             ELSE IF item.t = "str" /\ IsDigits(item.s) THEN PyInt(StrInt(item.s))
             ELSE Raised
      [] sctype = "(str,str)" ->
             IF item.t = "tuple" THEN item
             ELSE IF item.t = "str" THEN PyTuple(Split(ReSub(TupleStrChars, item.s)))
             ELSE Raised
      [] OTHER -> item

\* get() of the 'value' field of the leaf p
GetLeaf(p) ==
    LET selval == p.value
    IN  IF IsListType(p.type)
        THEN IF selval.t = "NoneType" THEN PyNone
             ELSE LET items == [i \in 1..Len(selval.xs) |->
                                   GetItem(ElemType(p.type), selval.xs[i])]
                  IN  IF \E i \in 1..Len(items) : items[i] = Raised THEN Raised
                      ELSE PyList(items)
        ELSE IF selval.t = "NoneType" THEN PyNone
        ELSE IF p.type = "int"
             THEN IF IsDigits(selval.s) THEN PyInt(StrInt(selval.s)) ELSE Raised
        ELSE IF p.type = "bool" THEN PyBool(selval.s = <<"t", "r", "u", "e">>)
        ELSE selval

\* get(k): [ret, err]; a keypath that does not exist raises the error flag
get(c, k) ==
    IF k \notin DOMAIN c THEN [ret |-> PyNone, err |-> TRUE]
    ELSE [ret |-> GetLeaf(c[k]), err |-> FALSE]

(***************************************************************************)
(* The schema store as a state machine: a schema with one leaf parameter   *)
(* ("param") or one 'default' template, and calls of set, add and get.     *)
(***************************************************************************)
VARIABLES
    scfg,       \* the dictionary that holds the leaf: key -> parameter
    shist,      \* self.cfghistory: job name -> dictionary
    serr,       \* self.error
    sop         \* the last call: [op, key, field, val, clobber, clear, ret, new,
                \* job]; new: the call created the key

schemavars == <<scfg, shist, serr, sop, graphvars>>

\* the keys the calls use
Keys == {"param", "lib"}

NoCall == [op |-> "none", key |-> "", field |-> "", val |-> PyNone, clobber |-> TRUE,
           clear |-> TRUE, ret |-> PyNone, new |-> FALSE, job |-> ""]

\* the type of the parameters of the schema
SchemaType(c) == c[CHOOSE k \in DOMAIN c : TRUE].type

S_a == <<"a">>

S_b == <<"b">>

S_ab == <<"a", " ", "b">>

S_zero == <<"0">>

\* the values the calls pass to a parameter of type ty
InputValues(ty) ==
    CASE ty = "str" ->
             <<PyNone, PyStr(S_a), PyStr(<<"n", "u", "l", "l">>),
               PyStr(<<"f", "a", "l", "s", "e">>), PyInt(7), PyList(<<PyStr(S_a)>>)>>
      [] ty = "int" ->
             <<PyNone, PyInt(7), PyInt(12), PyStr(<<"7">>), PyStr(S_a)>>
      [] ty = "bool" ->
             <<PyNone, PyBool(TRUE), PyBool(FALSE), PyStr(<<"t", "r", "u", "e">>),
               PyStr(<<"f", "a", "l", "s", "e">>), PyStr(S_a)>>
      [] ty = "[str]" ->
             <<PyStr(S_a), PyStr(S_b), PyList(<<PyStr(S_a), PyStr(S_b)>>), PyList(<<>>)>>
      [] ty = "[int]" ->
             <<PyNone, PyInt(7), PyStr(<<"7">>), PyList(<<PyInt(7), PyInt(12)>>),
               PyStr(S_a)>>
      [] OTHER ->
             <<PyNone, PyTuple(<<PyStr(S_a), PyStr(S_zero)>>),
               PyTuple(<<PyStr(S_ab), PyStr(S_zero)>>),
               PyList(<<PyTuple(<<PyStr(S_a), PyStr(S_zero)>>),
                        PyTuple(<<PyStr(S_ab), PyStr(S_zero)>>)>>),
               PyList(<<>>)>>

\* the list values of the model stay within MaxListLen items
Bounded(c) ==
    \A k \in DOMAIN c : c[k].value.t = "list" => Len(c[k].value.xs) <= MaxListLen

\* the schemas of the model: one leaf parameter of any type, or one
\* 'default' template of a scalar or of a list type
Schemas ==
    {("param" :> Leaf(ParamTypes[i])) : i \in 1..Len(ParamTypes)}
    \cup {("default" :> Leaf(ty)) : ty \in {"str", "[str]"}}

SchemaInit ==
    /\ scfg \in Schemas
    /\ shist = <<>>
    /\ serr = 0
    /\ sop = NoCall
    /\ graph = EmptyGraph
    /\ gres = NoRes
    /\ sel = NoSel
    /\ hs = NoHash
    /\ pr = NoPrune

\* chip.set(k, val, clobber=clobber)
SSet ==
    \E k \in Keys, clobber \in BOOLEAN :
    \E i \in 1..Len(InputValues(SchemaType(scfg))) :
        LET val == InputValues(SchemaType(scfg))[i]
            r   == SearchWrite(scfg, k, "set", "value", val, clobber)
        IN  /\ Bounded(r.cfg)
            /\ scfg' = r.cfg
            /\ serr' = IF r.err THEN 1 ELSE serr
            /\ sop' = [op |-> "set", key |-> k, field |-> "value", val |-> val,
                       clobber |-> clobber, clear |-> TRUE, ret |-> PyNone,
                       new |-> k \notin DOMAIN scfg /\ k \in DOMAIN r.cfg, job |-> ""]

\* chip.set(k, val, field='lock', clobber=clobber)
SSetLock ==
    \E k \in Keys, clobber \in BOOLEAN, b \in BOOLEAN :
        LET r == SearchWrite(scfg, k, "set", "lock", PyBool(b), clobber)
        IN  /\ scfg' = r.cfg
            /\ serr' = IF r.err THEN 1 ELSE serr
            /\ sop' = [op |-> "set", key |-> k, field |-> "lock", val |-> PyBool(b),
                       clobber |-> clobber, clear |-> TRUE, ret |-> PyNone,
                       new |-> k \notin DOMAIN scfg /\ k \in DOMAIN r.cfg, job |-> ""]

\* chip.add(k, val)
SAdd ==
    \E k \in Keys :
    \E i \in 1..Len(InputValues(SchemaType(scfg))) :
        LET val == InputValues(SchemaType(scfg))[i]
            r   == SearchWrite(scfg, k, "add", "value", val, TRUE)
        IN  /\ Bounded(r.cfg)
            /\ scfg' = r.cfg
            /\ serr' = IF r.err THEN 1 ELSE serr
            /\ sop' = [op |-> "add", key |-> k, field |-> "value", val |-> val,
                       clobber |-> TRUE, clear |-> TRUE, ret |-> PyNone,
                       new |-> k \notin DOMAIN scfg /\ k \in DOMAIN r.cfg, job |-> ""]

\* chip.get(k)
SGet ==
    \E k \in Keys :
        LET r == get(scfg, k)
        IN  /\ scfg' = scfg
            /\ serr' = IF r.err THEN 1 ELSE serr
            /\ sop' = [op |-> "get", key |-> k, field |-> "value", val |-> PyNone,
                       clobber |-> TRUE, clear |-> TRUE, ret |-> r.ret, new |-> FALSE, job |-> ""]

\* the keys of the dictionary c in a fixed order (the order of a Python
\* dictionary is not followed); a key is one str
KeyList(c) ==
    LET ks == SelectSeq(<<"default", "param", "lib">>, LAMBDA k : k \in DOMAIN c)
    IN  [i \in 1..Len(ks) |-> PyStr(<<ks[i]>>)]

\* getkeys(parent): the keys of the dictionary, 'default' removed
getkeys(c) == PyList(SelectSeq(KeyList(c), LAMBDA k : k # PyStr(<<"default">>)))

\* getkeys(): _allkeys, every keypath down to a leaf
_allkeys(c) == PyList([i \in 1..Len(KeyList(c)) |-> PyList(<<KeyList(c)[i]>>)])

\* chip.getkeys(parent)
SGetKeys ==
    /\ scfg' = scfg
    /\ serr' = serr
    /\ sop' = [NoCall EXCEPT !.op = "getkeys", !.ret = getkeys(scfg)]

\* chip.getkeys()
SAllKeys ==
    /\ scfg' = scfg
    /\ serr' = serr
    /\ sop' = [NoCall EXCEPT !.op = "allkeys", !.ret = _allkeys(scfg)]

\* the keys of a manifest in dictionary order, 'default' left out
ManifestKeys(src) == SelectSeq(<<"param", "lib">>, LAMBDA k : k \in DOMAIN src)

\* merge_manifest, one keypath: the value get() returns for the manifest is
\* added (list type and not clear) or set with clobber, then the lock field
\* is set; a get() that raises ends the call
MergeKey(dst, src, k, clobber, clear) ==
    LET val == get(src, k).ret
        w1  == IF IsListType(src[k].type) /\ ~clear
               THEN SearchWrite(dst.cfg, k, "add", "value", val, TRUE)
               ELSE SearchWrite(dst.cfg, k, "set", "value", val, clobber)
        w2  == SearchWrite(w1.cfg, k, "set", "lock", PyBool(src[k].lock = "true"), TRUE)
    IN  IF dst.raised \/ val = Raised THEN [dst EXCEPT !.raised = TRUE]
        ELSE [cfg |-> w2.cfg, err |-> dst.err \/ w1.err \/ w2.err, raised |-> FALSE]

RECURSIVE MergeKeys(_, _, _, _, _)
MergeKeys(dst, src, ks, clobber, clear) ==
    IF ks = <<>> THEN dst
    ELSE MergeKeys(MergeKey(dst, src, Head(ks), clobber, clear), src, Tail(ks),
                   clobber, clear)

\* merge_manifest(cfg, clobber=clobber, clear=clear) into the schema dst
MergeManifest(dst, src, clobber, clear) ==
    MergeKeys([cfg |-> dst, err |-> FALSE, raised |-> FALSE], src, ManifestKeys(src),
              clobber, clear)

\* the manifests merged into a schema of type ty: the parameter, locked or
\* not, as a set() of one of the values leaves it
Manifests(ty) ==
    {("param" :> [SetLeaf(Leaf(ty), "value", InputValues(ty)[i], TRUE).p EXCEPT !.lock = l]) :
        l \in {"false", "true"}, i \in 1..Len(InputValues(ty))}

\* chip.merge_manifest(src, clobber=clobber, clear=clear); sop.val and
\* sop.ret record the value and the lock field of the manifest
SMerge ==
    \E src \in Manifests(SchemaType(scfg)), clobber \in BOOLEAN, clear \in BOOLEAN :
        LET r == MergeManifest(scfg, src, clobber, clear)
            k == ManifestKeys(src)[1]
        IN  /\ Bounded(r.cfg)
            /\ scfg' = r.cfg
            /\ serr' = IF r.err THEN 1 ELSE serr
            /\ sop' = [op |-> "merge", key |-> k, field |-> "value", val |-> src[k].value,
                       clobber |-> clobber, clear |-> clear,
                       ret |-> PyBool(src[k].lock = "true"),
                       new |-> k \notin DOMAIN scfg /\ k \in DOMAIN r.cfg, job |-> ""]

(***************************************************************************)
(* merge_manifest(cfg, clobber) as read_manifest calls it (clear = True):  *)
(* every leaf the manifest holds is set() into the destination; set writes *)
(* when the destination value is empty or clobber is true.  A pruned       *)
(* manifest holds no empty leaf.                                           *)
(***************************************************************************)
MergeLeaf(dstval, srcval, emptyval, clobber) ==
    IF srcval # emptyval /\ (dstval = emptyval \/ clobber) THEN srcval ELSE dstval

merge_manifest(dst, src, clobber) ==
    [flowstatus |-> [n \in DOMAIN dst.flowstatus |->
                        MergeLeaf(dst.flowstatus[n], src.flowstatus[n], None, clobber)],
     select     |-> [n \in DOMAIN dst.select |->
                        MergeLeaf(dst.select[n], src.select[n], <<>>, clobber)],
     metric     |-> [n \in DOMAIN dst.metric |-> [m \in Range(Metrics) |->
                        MergeLeaf(dst.metric[n][m], src.metric[n][m], None, clobber)]]]

(***************************************************************************)
(* State.                                                                  *)
(***************************************************************************)
VARIABLES
    flow,           \* the 'flow' parameter: the flowgraph being run
    steplistparam,  \* the 'steplist' parameter (<<>> when unset)
    runpc,          \* where run() is
    steplist,       \* run()'s local steplist
    exitcode,       \* exit status of the main process (-1: still running)
    chiperror,      \* self.error of the parent Chip
    cfg,            \* the parent's schema
    active,         \* the shared Manager dict 'active'
    error,          \* the shared Manager dict 'error'
    disk,           \* per node: outputs/<design>.pkg.json (None: no file)
    wpc,            \* per node: where its worker process is
    wcur,           \* per node: position of the worker in its input loop
    wcfg,           \* per node: the worker's copy of the schema
    werr,           \* per node: self.error of the worker's Chip
    did,            \* per node: the hooks and executables the worker has invoked,
                    \* and "mismatch" once its hash_files found a hash mismatch
    wend,           \* per node: how the worker process ended ("": it has not)
    wbits           \* per node: <<error[key], active[key]>> as the process exited

runvars == <<flow, steplistparam, runpc, steplist, exitcode, chiperror, cfg>>

sharedvars == <<active, error, disk>>

workervars == <<wpc, wcur, wcfg, werr, did, wend, wbits>>

Nodes == FlowNodeSet(flow)

slice == ActiveSlice(flow, steplist)

\* a manifest left in the job directory by an earlier, successful run
StaleManifest(f, n) ==
    [EmptyCfg(f) EXCEPT
        !.flowstatus = [k \in FlowNodeSet(f) |->
                           IF k = n \/ InSeq(k, FlowInput(f, n)) THEN Some(0) ELSE Some(1)],
        !.select     = [k \in FlowNodeSet(f) |->
                           IF k = n /\ FlowTool(f, n) \notin builtin
                           THEN FlowInput(f, n) ELSE <<>>],
        !.metric     = [k \in FlowNodeSet(f) |-> [m \in Range(Metrics) |->
                           IF k = n \/ InSeq(k, FlowInput(f, n)) THEN Some(0) ELSE None]]]

\* the 'steplist' settings tried: unset, or the flow without its first step
StepListParams(f) == {<<>>, Tail(list_steps(f))}

\* the state before run() on one of the flows fs
EngineStart(fs) ==
    /\ flow \in fs
    /\ steplistparam \in StepListParams(flow)
    /\ runpc = "start"
    /\ steplist = <<>>
    /\ exitcode = -1
    /\ chiperror = 0
    /\ cfg = EmptyCfg(flow)
    /\ active = <<>>
    /\ error = <<>>
    /\ \E prev \in BOOLEAN :
          disk = [n \in FlowNodeSet(flow) |->
                     IF prev THEN Some(StaleManifest(flow, n)) ELSE None]
    /\ wpc = [n \in FlowNodeSet(flow) |-> "none"]
    /\ wcur = [n \in FlowNodeSet(flow) |-> 1]
    /\ wcfg = [n \in FlowNodeSet(flow) |-> EmptyCfg(flow)]
    /\ werr = [n \in FlowNodeSet(flow) |-> 0]
    /\ did = [n \in FlowNodeSet(flow) |-> {}]
    /\ wend = [n \in FlowNodeSet(flow) |-> ""]
    /\ wbits = [n \in FlowNodeSet(flow) |-> <<>>]

EngineInit == EngineStart(FlowNames)

(***************************************************************************)
(* run(): the orchestrator.                                                *)
(***************************************************************************)
RECURSIVE SeedBits(_, _, _)
\* the seeding loop over the nodes, in order: the key of a node of the
\* active slice gets 1, the key of any other node gets 0
SeedBits(ns, sl, d) ==
    IF ns = <<>> THEN d
    ELSE LET n == ns[Len(ns)]
         IN  DictSet(SeedBits(SubSeq(ns, 1, Len(ns) - 1), sl, d), stepstr(n),
                     IF InSeq(n[1], sl) THEN 1 ELSE 0)

\* steplist selection, removal of the stale job directory of a full run,
\* and the seeding of flowstatus, error and active; a tool's setup() may
\* leave the error flag set
RunSeed ==
    /\ runpc = "start"
    /\ LET sl == IF steplistparam # <<>> THEN steplistparam ELSE list_steps(flow)
       IN  /\ steplist' = sl
           /\ disk' = IF steplistparam = <<>> THEN [n \in Nodes |-> None] ELSE disk
           /\ cfg' = [cfg EXCEPT !.flowstatus =
                        [n \in Nodes |-> IF InSeq(n[1], sl) THEN Some(1) ELSE Some(0)]]
           /\ active' = SeedBits(FlowNodes(flow), sl, active)
           /\ error' = SeedBits(FlowNodes(flow), sl, error)
    /\ \E e \in {chiperror, 1} : chiperror' = e
    /\ runpc' = "check"
    /\ UNCHANGED <<flow, steplistparam, exitcode>>
    /\ UNCHANGED workervars
    /\ UNCHANGED schemavars

\* find_function(tool, 'setup') returns None for a tool of the slice:
\* sys.exit(1) in the middle of the seeding loop
RunSetupMissing ==
    /\ runpc = "start"
    /\ LET sl == IF steplistparam # <<>> THEN steplistparam ELSE list_steps(flow)
       IN  /\ \E n \in ActiveSlice(flow, sl) : FlowTool(flow, n) \notin builtin
           /\ steplist' = sl
           /\ disk' = IF steplistparam = <<>> THEN [n \in Nodes |-> None] ELSE disk
    /\ runpc' = "exited"
    /\ exitcode' = 1
    /\ UNCHANGED <<flow, steplistparam, chiperror, cfg, active, error>>
    /\ UNCHANGED workervars
    /\ UNCHANGED schemavars

\* a check_manifest that reports this check alone
CheckThisOnly(f, err, ok) == IF ok THEN 0 ELSE 1

\* check_manifest(): returns self.error; ok stands for the requirement,
\* executable and file checks of the schema content
check_manifest(f, err, ok) ==
    IF ~InSeq("import", FlowSteps(f)) THEN 1
    ELSE IF ok THEN err ELSE 1

\* the exit status of the sys.exit() call after a failed check
CheckExitCode == 0

\* "Check validity of setup" and "Check if there were errors"
RunCheck ==
    /\ runpc = "check"
    /\ \E skipcheck \in BOOLEAN, ok \in BOOLEAN :
          LET e == IF skipcheck THEN chiperror ELSE check_manifest(flow, chiperror, ok)
          IN  /\ chiperror' = e
              /\ IF e # 0
                 THEN runpc' = "exited" /\ exitcode' = CheckExitCode
                 ELSE runpc' = "spawn" /\ exitcode' = exitcode
    /\ UNCHANGED <<flow, steplistparam, steplist, cfg>>
    /\ UNCHANGED sharedvars
    /\ UNCHANGED workervars
    /\ UNCHANGED schemavars

\* one process per (step, index) of the slice, each a copy of the parent
RunSpawn ==
    /\ runpc = "spawn"
    /\ wpc' = [n \in Nodes |-> IF n \in slice THEN "init" ELSE "none"]
    /\ wcfg' = [n \in Nodes |-> cfg]
    /\ werr' = [n \in Nodes |-> chiperror]
    /\ runpc' = "join"
    /\ UNCHANGED <<flow, steplistparam, steplist, exitcode, chiperror, cfg>>
    /\ UNCHANGED sharedvars
    /\ UNCHANGED <<wcur, did, wend, wbits>>
    /\ UNCHANGED schemavars

\* p.join() for every process
RunJoin ==
    /\ runpc = "join"
    /\ \A n \in slice : wpc[n] = "exited"
    /\ runpc' = "rollup"
    /\ UNCHANGED <<flow, steplistparam, steplist, exitcode, chiperror, cfg>>
    /\ UNCHANGED sharedvars
    /\ UNCHANGED workervars
    /\ UNCHANGED schemavars

\* a roll-up that counts every error bit
RunHaltAny(f, sl, err) ==
    \E n \in ActiveSlice(f, sl) : err[stepstr(n)] = 1

\* "Make a clean exit if one of the steps failed": halt counts the steps
\* whose indices all have their error bit set
RunHalt(f, sl, err) ==
    \E i \in 1..Len(sl) :
        \A n \in FlowNodeSet(f) : n[1] = sl[i] => err[stepstr(n)] = 1

RunRollup ==
    /\ runpc = "rollup"
    /\ IF RunHalt(flow, steplist, error)
       THEN runpc' = "exited" /\ exitcode' = 1
       ELSE runpc' = "reconcile" /\ exitcode' = exitcode
    /\ UNCHANGED <<flow, steplistparam, steplist, chiperror, cfg>>
    /\ UNCHANGED sharedvars
    /\ UNCHANGED workervars
    /\ UNCHANGED schemavars

RECURSIVE ReadLast(_, _, _)
\* read_manifest(lastcfg, clobber=True, clear=True) for every index of the
\* last step whose manifest exists
ReadLast(ns, c, d) ==
    IF ns = <<>> THEN c
    ELSE LET n    == ns[Len(ns)]
             rest == ReadLast(SubSeq(ns, 1, Len(ns) - 1), c, d)
         IN  IF d[n] # None THEN merge_manifest(rest, d[n][1], TRUE) ELSE rest

\* "Merge cfg back from last executed runsteps"
RunReconcile ==
    /\ runpc = "reconcile"
    /\ LET last == NodesOfStep(FlowNodes(flow), steplist[Len(steplist)])
       IN  IF \E i \in 1..Len(last) : disk[last[i]] # None
           THEN /\ cfg' = ReadLast(last, cfg, disk)
                /\ runpc' = "returned"
                /\ exitcode' = exitcode
           ELSE /\ cfg' = cfg
                /\ runpc' = "exited"
                /\ exitcode' = 1
    /\ UNCHANGED <<flow, steplistparam, steplist, chiperror>>
    /\ UNCHANGED sharedvars
    /\ UNCHANGED workervars
    /\ UNCHANGED schemavars

(***************************************************************************)
(* _runtask_safe / _runtask: one worker process per node of the slice.     *)
(* did[n] records the invocations of the pre_process hook ("pre") and of   *)
(* the executable ("exe").  wend[n] records how the process ended:         *)
(* "returned" (_runtask ran to its end), "halted" (_haltstep after a       *)
(* failure of the task's own tool, hook, check or selection, or after an   *)
(* exception), "inputhalt" (_haltstep because of an input: its error flag  *)
(* or its missing manifest), "sysexit" (a SystemExit that _haltstep did    *)
(* not raise).  wbits[n] records the node's error and active bits as the   *)
(* process exited.                                                         *)
(***************************************************************************)
Inputs(n) == FlowInput(flow, n)

\* the process is gone: its address space (schema copy, cursor, error
\* flag) with it
Gone(n, how, act) ==
    /\ wbits' = [wbits EXCEPT ![n] = <<error[stepstr(n)], act>>]
    /\ wpc' = [wpc EXCEPT ![n] = "exited"]
    /\ wcur' = [wcur EXCEPT ![n] = 1]
    /\ wcfg' = [wcfg EXCEPT ![n] = EmptyCfg(flow)]
    /\ werr' = [werr EXCEPT ![n] = 0]
    /\ wend' = [wend EXCEPT ![n] = how]

\* the key _haltstep clears in the shared active dictionary
HaltKey(n) == stepstr(n)

\* _haltstep(step, index, active): active[key] = 0, then sys.exit(1), which
\* _runtask_safe swallows
_haltstep(n, how) ==
    /\ active' = DictSet(active, HaltKey(n), 0)
    /\ Gone(n, how, 0)
    /\ UNCHANGED <<error, disk>>

\* the worker moves on to the next stage
Goto(n, pc) ==
    /\ wpc' = [wpc EXCEPT ![n] = pc]
    /\ UNCHANGED <<wend, wbits>>

\* _init_logger, which may raise: self.error = 1, then _haltstep
WInit(n) ==
    /\ wpc[n] = "init"
    /\ \E ok \in BOOLEAN :
          IF ok
          THEN /\ Goto(n, "wait")
               /\ UNCHANGED <<wcur, wcfg, werr>>
               /\ UNCHANGED sharedvars
          ELSE _haltstep(n, "halted")
    /\ UNCHANGED did
    /\ UNCHANGED runvars
    /\ UNCHANGED schemavars

\* a wait loop that multiplies the active bits instead of adding them
PendingProduct(n) ==
    /\ Inputs(n) # <<>>
    /\ \A i \in 1..Len(Inputs(n)) : active[stepstr(Inputs(n)[i])] # 0

\* pending of the wait loop: the sum of the active bits of the inputs
Pending(n) == \E i \in 1..Len(Inputs(n)) : active[stepstr(Inputs(n)[i])] # 0

\* active[in_step + in_index] raises KeyError: an input that is no task of
\* the flow has no entry in the shared dictionary (the exception is WRaise)
KeyMissing(n) ==
    \E i \in 1..Len(Inputs(n)) : stepstr(Inputs(n)[i]) \notin DOMAIN active

\* 1. Wait loop: left when nothing is pending
WWait(n) ==
    /\ wpc[n] = "wait"
    /\ ~KeyMissing(n)
    /\ ~Pending(n)
    /\ Goto(n, "dir")
    /\ UNCHANGED <<wcur, wcfg, werr, did>>
    /\ UNCHANGED sharedvars
    /\ UNCHANGED runvars
    /\ UNCHANGED schemavars

\* 4. Directory setup: rmtree(workdir), makedirs
WDir(n) ==
    /\ wpc[n] = "dir"
    /\ disk' = [disk EXCEPT ![n] = None]
    /\ Goto(n, "fanin")
    /\ wcur' = [wcur EXCEPT ![n] = 1]
    /\ UNCHANGED <<wcfg, werr, did, active, error>>
    /\ UNCHANGED runvars
    /\ UNCHANGED schemavars

\* 5. Merge manifests from all input dependencies, one input per step:
\* the input's error bit is copied into flowstatus, and the input's
\* manifest is read with clobber=False when the bit is 0; open() raises
\* when the file does not exist
WFanin(n) ==
    /\ wpc[n] = "fanin"
    /\ wcur[n] <= Len(Inputs(n))
    /\ LET in   == Inputs(n)[wcur[n]]
           e    == error[stepstr(in)]
           seen == [wcfg[n] EXCEPT !.flowstatus[in] = Some(e)]
       IN  IF e = 0 /\ disk[in] = None
           THEN _haltstep(n, "inputhalt")
           ELSE /\ wcfg' = [wcfg EXCEPT ![n] =
                              IF e = 0 THEN merge_manifest(seen, disk[in][1], FALSE)
                              ELSE seen]
                /\ wcur' = [wcur EXCEPT ![n] = @ + 1]
                /\ Goto(n, "fanin")
                /\ UNCHANGED werr
                /\ UNCHANGED sharedvars
    /\ UNCHANGED did
    /\ UNCHANGED runvars
    /\ UNCHANGED schemavars

\* 7. Reset metrics to zero
WReset(n) ==
    /\ wpc[n] = "fanin"
    /\ wcur[n] > Len(Inputs(n))
    /\ wcfg' = [wcfg EXCEPT ![n].metric[n] = [m \in Range(Metrics) |-> Some(0)]]
    /\ Goto(n, "select")
    /\ UNCHANGED <<wcur, werr, did>>
    /\ UNCHANGED sharedvars
    /\ UNCHANGED runvars
    /\ UNCHANGED schemavars

\* the outcome of "8. Select inputs": [exc, sel] with sel None or
\* Some(list); mux returns None, which the tuple unpacking cannot take
SelectInputs(f, n, c) ==
    LET tool == FlowTool(f, n)
        ins  == FlowInput(f, n)
        mm   == IF tool = "minimum" THEN minimum(f, n, c, ins) ELSE maximum(f, n, c, ins)
    IN  CASE tool \in {"minimum", "maximum"} ->
                 [exc |-> mm.exc,
                  sel |-> IF mm.winner = None THEN None ELSE Some(<<mm.winner[1]>>)]
          [] tool = "mux"    -> [exc |-> TRUE, sel |-> None]
          [] tool = "join"   -> [exc |-> FALSE, sel |-> Some(join(ins))]
          [] tool = "verify" -> [exc |-> FALSE,
                                 sel |-> IF verify(ins) THEN Some(<<>>) ELSE None]
          [] tool = "nop"    -> [exc |-> FALSE, sel |-> Some(<<>>)]
          [] OTHER           -> [exc |-> FALSE, sel |-> Some(ins)]

\* 8. Select inputs: an exception or no selection halts
WSelect(n) ==
    /\ wpc[n] = "select"
    /\ LET r == SelectInputs(flow, n, wcfg[n])
       IN  IF r.exc \/ r.sel = None
           THEN _haltstep(n, "halted")
           ELSE /\ wcfg' = [wcfg EXCEPT ![n].select[n] = r.sel[1]]
                /\ Goto(n, "stage")
                /\ UNCHANGED <<wcur, werr>>
                /\ UNCHANGED sharedvars
    /\ UNCHANGED did
    /\ UNCHANGED runvars
    /\ UNCHANGED schemavars

\* all_inputs of "9. Copy (link) output data from previous steps"
StageInputs(f, n, c) ==
    IF FlowInput(f, n) = <<>> THEN <<>>
    ELSE IF c.select[n] = <<>> THEN FlowInput(f, n)
    ELSE c.select[n]

\* 9. _collect for the import step, which halts on a missing file; then the
\* halt on an input whose flowstatus error is 1
WStage(n) ==
    /\ wpc[n] = "stage"
    /\ \E collected \in BOOLEAN :
          LET ins == StageInputs(flow, n, wcfg[n])
          IN  IF n[1] = "import" /\ ~collected
              THEN _haltstep(n, "halted")
              ELSE IF \E i \in 1..Len(ins) : wcfg[n].flowstatus[ins[i]] = Some(1)
              THEN _haltstep(n, "inputhalt")
              ELSE /\ Goto(n, "check")
                   /\ UNCHANGED <<wcur, wcfg, werr>>
                   /\ UNCHANGED sharedvars
    /\ UNCHANGED did
    /\ UNCHANGED runvars
    /\ UNCHANGED schemavars

\* 11. Check manifest, unless skipcheck is set
WCheck(n) ==
    /\ wpc[n] = "check"
    /\ \E skipcheck \in BOOLEAN, ok \in BOOLEAN :
          IF ~skipcheck /\ check_manifest(flow, werr[n], ok) # 0
          THEN _haltstep(n, "halted")
          ELSE /\ Goto(n, "pre")
               /\ UNCHANGED <<wcur, wcfg, werr>>
               /\ UNCHANGED sharedvars
    /\ UNCHANGED did
    /\ UNCHANGED runvars
    /\ UNCHANGED schemavars


\* 12.-15. pre_process hook (halt when it leaves the error flag set), then
\* the version check (halt on a missing parse_version or a version that is
\* not allowed); built-in tasks have neither
WPre(n) ==
    /\ wpc[n] = "pre"
    /\ IF FlowTool(flow, n) \in builtin
       THEN /\ Goto(n, "exe")
            /\ UNCHANGED <<wcur, wcfg, werr, did>>
            /\ UNCHANGED sharedvars
       ELSE /\ did' = [did EXCEPT ![n] = @ \cup {"pre"}]
            /\ \E r \in {"ok", "hookerror", "version"} :
                  IF r = "ok"
                  THEN /\ Goto(n, "exe")
                       /\ UNCHANGED <<wcur, wcfg, werr>>
                       /\ UNCHANGED sharedvars
                  ELSE _haltstep(n, "halted")
    /\ UNCHANGED runvars
    /\ UNCHANGED schemavars

\* the stage of the worker once the child has exited with status retcode:
\* "failed" is a non-zero status with eda/<tool>/continue unset,
\* "failedcont" a non-zero status with continue set
AfterExit(retcode, continue) ==
    IF retcode = 0 THEN "post" ELSE IF continue THEN "failedcont" ELSE "failed"

\* the timeout is watched: the polling loop around subprocess.Popen does,
\* pty.spawn (the step is in 'bkpt' on a POSIX host) does not
Watched(bkpt) == ~bkpt

\* 17. Run executable (built-in tasks copy inputs to outputs), up to the
\* point where the child has exited or the timeout is exceeded: "timedout"
\* when the polling loop sees the timeout, "overdue" when the timeout is
\* exceeded and nothing watches it
WExe(n) ==
    /\ wpc[n] = "exe"
    /\ IF FlowTool(flow, n) \in builtin
       THEN /\ Goto(n, "post")
            /\ UNCHANGED did
       ELSE /\ did' = [did EXCEPT ![n] = @ \cup {"exe"}]
            /\ \E bkpt \in BOOLEAN, timeout \in BOOLEAN, retcode \in {0, 1},
                  continue \in BOOLEAN :
                  Goto(n, IF timeout
                          THEN IF Watched(bkpt) THEN "timedout" ELSE "overdue"
                          ELSE AfterExit(retcode, continue))
    /\ UNCHANGED <<wcur, wcfg, werr>>
    /\ UNCHANGED sharedvars
    /\ UNCHANGED runvars
    /\ UNCHANGED schemavars

\* the stages in which the outcome of the executable or of the post_process
\* hook is known and not yet acted upon
OutcomeStages == {"timedout", "overdue", "failed", "failedcont", "postfailed"}

\* what _runtask does on the outcome: proc.terminate() and _haltstep on a
\* timeout seen; on an overdue child, nothing until it exits; _haltstep on
\* a non-zero status unless continue is set; _haltstep when post_process
\* reported an error
WOutcome(n) ==
    /\ wpc[n] \in OutcomeStages
    /\ CASE wpc[n] \in {"timedout", "failed", "postfailed"} -> _haltstep(n, "halted")
         [] wpc[n] = "overdue" ->
               \E retcode \in {0, 1}, continue \in BOOLEAN :
                  /\ Goto(n, AfterExit(retcode, continue))
                  /\ UNCHANGED <<wcur, wcfg, werr>>
                  /\ UNCHANGED sharedvars
         [] OTHER ->
               /\ Goto(n, "post")
               /\ UNCHANGED <<wcur, wcfg, werr>>
               /\ UNCHANGED sharedvars
    /\ UNCHANGED did
    /\ UNCHANGED runvars
    /\ UNCHANGED schemavars

\* the values a post_process hook records for the metrics of node n: the
\* selectors read the metrics of the nodes that carry a goal
MetricValues(f, n) ==
    IF \E i \in 1..Len(Metrics) : FlowGoal(f, n, Metrics[i]) # None
    THEN 0..MaxMetric ELSE {0}

\* 19.-21. post_process hook, which records the metrics and halts when it
\* returns non-zero; with the 'hash' option, hash_files on the outputs and
\* the required files, which sets the error flag on a mismatch with a
\* recorded filehash
WPost(n) ==
    /\ wpc[n] = "post"
    /\ IF FlowTool(flow, n) \in builtin
       THEN /\ Goto(n, "emit")
            /\ UNCHANGED <<wcur, wcfg, werr, did>>
            /\ UNCHANGED sharedvars
       ELSE \E post_error \in {0, 1}, v \in MetricValues(flow, n),
               hash \in BOOLEAN, mismatch \in BOOLEAN :
               IF post_error # 0
               THEN /\ Goto(n, "postfailed")
                    /\ UNCHANGED <<wcur, wcfg, werr, did>>
                    /\ UNCHANGED sharedvars
               ELSE /\ wcfg' = [wcfg EXCEPT ![n].metric[n] =
                                   [m \in Range(Metrics) |-> Some(v)]]
                    /\ werr' = [werr EXCEPT ![n] = IF hash /\ mismatch THEN 1 ELSE @]
                    /\ did' = [did EXCEPT ![n] =
                                  IF hash /\ mismatch THEN @ \cup {"mismatch"} ELSE @]
                    /\ Goto(n, "emit")
                    /\ UNCHANGED wcur
                    /\ UNCHANGED sharedvars
    /\ UNCHANGED runvars
    /\ UNCHANGED schemavars

\* 24. Save a successful manifest
WEmit(n) ==
    /\ wpc[n] = "emit"
    /\ LET c == [wcfg[n] EXCEPT !.flowstatus[n] = Some(0)]
       IN  /\ wcfg' = [wcfg EXCEPT ![n] = c]
           /\ disk' = [disk EXCEPT ![n] = Some(c)]
    /\ Goto(n, "clrerr")
    /\ UNCHANGED <<wcur, werr, did, active, error>>
    /\ UNCHANGED runvars
    /\ UNCHANGED schemavars

\* a step 27 that leaves the error bit as seeded
WClrErrSkipped(n) ==
    /\ wpc[n] = "clrerr"
    /\ Goto(n, "clract")
    /\ UNCHANGED <<wcur, wcfg, werr, did>>
    /\ UNCHANGED sharedvars
    /\ UNCHANGED runvars
    /\ UNCHANGED schemavars

\* 27. error[step + str(index)] = 0
WClrErr(n) ==
    /\ wpc[n] = "clrerr"
    /\ error' = DictSet(error, stepstr(n), 0)
    /\ Goto(n, "clract")
    /\ UNCHANGED <<wcur, wcfg, werr, did, active, disk>>
    /\ UNCHANGED runvars
    /\ UNCHANGED schemavars

\* 27. active[step + str(index)] = 0, and _runtask returns
WClrAct(n) ==
    /\ wpc[n] = "clract"
    /\ active' = DictSet(active, stepstr(n), 0)
    /\ Gone(n, "returned", 0)
    /\ UNCHANGED <<did, error, disk>>
    /\ UNCHANGED runvars
    /\ UNCHANGED schemavars

\* the stages of _runtask in which a call can raise
RaisingStages == {"wait", "dir", "fanin", "select", "stage", "check", "pre", "exe",
                  "post", "emit"}

\* any other exception raised inside _runtask: the generic handler sets
\* self.error = 1 and calls _haltstep
WRaise(n) ==
    /\ wpc[n] \in RaisingStages
    /\ _haltstep(n, "halted")
    /\ UNCHANGED did
    /\ UNCHANGED runvars
    /\ UNCHANGED schemavars

\* what "except SystemExit: pass" of _runtask_safe leaves behind
SwallowExit(n) ==
    /\ Gone(n, "sysexit", active[stepstr(n)])
    /\ UNCHANGED sharedvars

\* a tool hook (pre_process or post_process) calls sys.exit()
WHookExit(n) ==
    /\ wpc[n] \in {"pre", "post"}
    /\ FlowTool(flow, n) \notin builtin
    /\ did' = [did EXCEPT ![n] = IF wpc[n] = "pre" THEN @ \cup {"pre"} ELSE @]
    /\ SwallowExit(n)
    /\ UNCHANGED runvars
    /\ UNCHANGED schemavars

enginevars == <<runvars, sharedvars, workervars>>

vars == <<flow, steplistparam, runpc, steplist, exitcode, chiperror, cfg,
          active, error, disk, wpc, wcur, wcfg, werr, did, wend, wbits,
          scfg, shist, serr, sop, graph, gres, sel, hs, pr>>

\* a run of the engine: the schema store of the calls is left alone
Init ==
    /\ EngineInit
    /\ scfg = ("param" :> Leaf("str"))
    /\ shist = <<>>
    /\ serr = 0
    /\ sop = NoCall
    /\ graph = EmptyGraph
    /\ gres = NoRes
    /\ sel = NoSel
    /\ hs = NoHash
    /\ pr = NoPrune

Next ==
    \/ RunSeed
    \/ RunSetupMissing
    \/ RunCheck
    \/ RunSpawn
    \/ RunJoin
    \/ RunRollup
    \/ RunReconcile
    \/ \E n \in Nodes : WInit(n)
    \/ \E n \in Nodes : WWait(n)
    \/ \E n \in Nodes : WDir(n)
    \/ \E n \in Nodes : WFanin(n)
    \/ \E n \in Nodes : WReset(n)
    \/ \E n \in Nodes : WSelect(n)
    \/ \E n \in Nodes : WStage(n)
    \/ \E n \in Nodes : WCheck(n)
    \/ \E n \in Nodes : WPre(n)
    \/ \E n \in Nodes : WExe(n)
    \/ \E n \in Nodes : WOutcome(n)
    \/ \E n \in Nodes : WPost(n)
    \/ \E n \in Nodes : WEmit(n)
    \/ \E n \in Nodes : WClrErr(n)
    \/ \E n \in Nodes : WClrAct(n)
    \/ \E n \in Nodes : WRaise(n)
    \/ \E n \in Nodes : WHookExit(n)

Spec == Init /\ [][Next]_vars

\* a run of a flow in which edge() named a tail that is no task of the flow
InitDangle ==
    /\ EngineStart({"dangle"})
    /\ scfg = ("param" :> Leaf("str"))
    /\ shist = <<>>
    /\ serr = 0
    /\ sop = NoCall
    /\ graph = EmptyGraph
    /\ gres = NoRes
    /\ sel = NoSel
    /\ hs = NoHash
    /\ pr = NoPrune

SpecDangle == InitDangle /\ [][Next]_vars

\* a run of a flow in which a nop task stands between two tasks
InitPass ==
    /\ EngineStart({"passflow"})
    /\ scfg = ("param" :> Leaf("str"))
    /\ shist = <<>>
    /\ serr = 0
    /\ sop = NoCall
    /\ graph = EmptyGraph
    /\ gres = NoRes
    /\ sel = NoSel
    /\ hs = NoHash
    /\ pr = NoPrune

SpecPass == InitPass /\ [][Next]_vars

\* run() leaves its first stage: the step is RunSeed or RunSetupMissing,
\* and RunSeed can always be taken there
RunStarts == runpc = "start" /\ runpc' \in {"check", "exited"}

\* the later steps a scheduled process takes by itself: every step of run()
\* and every step of a worker but the exception WRaise, which nothing
\* forces
Progress ==
    \/ RunCheck
    \/ RunSpawn
    \/ RunJoin
    \/ RunRollup
    \/ RunReconcile
    \/ \E n \in Nodes :
          \/ WInit(n) \/ WWait(n) \/ WDir(n) \/ WFanin(n) \/ WReset(n)
          \/ WSelect(n) \/ WStage(n) \/ WCheck(n) \/ WPre(n) \/ WExe(n)
          \/ WOutcome(n) \/ WPost(n) \/ WEmit(n) \/ WClrErr(n) \/ WClrAct(n)
          \/ WHookExit(n)

\* the run of SpecPass under fair scheduling: the operating system keeps
\* running a process that can take a step.  Every process takes finitely
\* many steps (the poll of the wait loop is no step), so fairness to the
\* processes together is fairness to each of them.
SpecLive == InitPass /\ [][Next]_vars /\ WF_runpc(RunStarts) /\ WF_vars(Progress)

\* no run: the state of a Chip on which run() is never called
EngineIdle ==
    /\ flow = "asicflow"
    /\ steplistparam = <<>>
    /\ runpc = "idle"
    /\ steplist = <<>>
    /\ exitcode = -1
    /\ chiperror = 0
    /\ cfg = EmptyCfg(flow)
    /\ active = <<>>
    /\ error = <<>>
    /\ disk = [n \in FlowNodeSet(flow) |-> None]
    /\ wpc = [n \in FlowNodeSet(flow) |-> "none"]
    /\ wcur = [n \in FlowNodeSet(flow) |-> 1]
    /\ wcfg = [n \in FlowNodeSet(flow) |-> EmptyCfg(flow)]
    /\ werr = [n \in FlowNodeSet(flow) |-> 0]
    /\ did = [n \in FlowNodeSet(flow) |-> {}]
    /\ wend = [n \in FlowNodeSet(flow) |-> ""]
    /\ wbits = [n \in FlowNodeSet(flow) |-> <<>>]

InitSchema == EngineIdle /\ SchemaInit

NextSchema ==
    \/ SSet /\ UNCHANGED <<enginevars, shist, graphvars>>
    \/ SSetLock /\ UNCHANGED <<enginevars, shist, graphvars>>
    \/ SAdd /\ UNCHANGED <<enginevars, shist, graphvars>>
    \/ SGet /\ UNCHANGED <<enginevars, shist, graphvars>>
    \/ SGetKeys /\ UNCHANGED <<enginevars, shist, graphvars>>
    \/ SAllKeys /\ UNCHANGED <<enginevars, shist, graphvars>>

\* calls of set, add, get and getkeys on a schema
SpecSchema == InitSchema /\ [][NextSchema]_vars

\* _prune: the 'default' template and every leaf whose value is 'null', None
\* or [] are left out (the defvalue of the leaves of the model is empty)
_prune(c) ==
    LET kept == {k \in DOMAIN c \ {"default"} :
                    ~InSeq(c[k].value, <<PyStr(<<"n", "u", "l", "l">>), PyNone, PyList(<<>>)>>)}
    IN  [k \in kept |-> c[k]]

\* json.load(json.dumps(v)): a tuple comes back as a list
RECURSIVE JsonValue(_)
JsonValue(v) ==
    IF v.t \in {"tuple", "list"}
    THEN PyList([i \in 1..Len(v.xs) |-> JsonValue(v.xs[i])])
    ELSE v

\* the dictionary json.load returns for the file write_manifest(f) writes
write_manifest(c) ==
    [k \in DOMAIN _prune(c) |-> [c[k] EXCEPT !.value = JsonValue(@)]]

\* read_manifest(f) with the default clobber and clear
read_manifest(dst, file) == MergeManifest(dst, file, TRUE, TRUE)

\* chip.write_manifest(f); b = Chip(); b.read_manifest(f); b.get(k): val is
\* chip.get(k), ret is b.get(k), or Raised when read_manifest raises
SRoundTrip ==
    LET k == "param"
        b == read_manifest(("param" :> Leaf(SchemaType(scfg))), write_manifest(scfg))
    IN  /\ scfg' = scfg
        /\ serr' = serr
        /\ sop' = [NoCall EXCEPT !.op = "roundtrip", !.key = k,
                                 !.val = get(scfg, k).ret,
                                 !.ret = IF b.raised THEN Raised ELSE get(b.cfg, k).ret]

\* the job names of the calls
Jobs == {"job0", "job1"}

\* chip.read_manifest(f, job=j): cfghistory[j] becomes a fresh schema, and the
\* manifest is merged into it; val is the value the manifest holds, ret is
\* Raised when the call raises
SReadJob ==
    \E j \in Jobs, src \in Manifests(SchemaType(scfg)) :
        LET fresh == ("param" :> Leaf(SchemaType(scfg)))
            r     == read_manifest(fresh, src)
        IN  /\ shist' = (j :> r.cfg) @@ shist
            /\ scfg' = scfg
            /\ serr' = IF r.err THEN 1 ELSE serr
            /\ sop' = [NoCall EXCEPT !.op = "readjob", !.key = "param", !.job = j,
                                     !.val = src["param"].value,
                                     !.ret = IF r.raised THEN Raised ELSE PyNone]

\* chip.get(k, job=j): a job that was never read raises KeyError
SGetJob ==
    \E j \in Jobs, k \in Keys :
        LET r == IF j \in DOMAIN shist THEN get(shist[j], k)
                 ELSE [ret |-> Raised, err |-> FALSE]
        IN  /\ shist' = shist
            /\ scfg' = scfg
            /\ serr' = IF r.err THEN 1 ELSE serr
            /\ sop' = [NoCall EXCEPT !.op = "getjob", !.key = k, !.job = j, !.ret = r.ret]

\* chip.check_manifest(): self.error is raised when a check fails, and
\* returned
SCheck ==
    \E ok \in BOOLEAN :
        LET e == check_manifest(flow, serr, ok)
        IN  /\ scfg' = scfg
            /\ serr' = e
            /\ sop' = [NoCall EXCEPT !.op = "check", !.val = PyBool(ok), !.ret = PyInt(e)]

\* a schema with one leaf parameter, no template
InitManifest ==
    /\ EngineIdle
    /\ SchemaInit
    /\ "param" \in DOMAIN scfg

NextManifest ==
    \/ SSet /\ UNCHANGED <<enginevars, shist, graphvars>>
    \/ SSetLock /\ UNCHANGED <<enginevars, shist, graphvars>>
    \/ SAdd /\ UNCHANGED <<enginevars, shist, graphvars>>
    \/ SGet /\ UNCHANGED <<enginevars, shist, graphvars>>
    \/ SMerge /\ UNCHANGED <<enginevars, shist, graphvars>>
    \/ SCheck /\ UNCHANGED <<enginevars, shist, graphvars>>
    \/ SRoundTrip /\ UNCHANGED <<enginevars, shist, graphvars>>

\* calls of set, add, get, merge_manifest and check_manifest on a Chip
SpecManifest == InitManifest /\ [][NextManifest]_vars

NextHistory ==
    \/ SReadJob /\ UNCHANGED <<enginevars, graphvars>>
    \/ SGetJob /\ UNCHANGED <<enginevars, graphvars>>

\* manifests of jobs read into one Chip
SpecHistory == InitManifest /\ [][NextHistory]_vars

(***************************************************************************)
(* A flowgraph built call by call with node() and edge(), and the calls    *)
(* that read it: list_steps, _gather_outputs, _check_flowgraph_io.         *)
(***************************************************************************)
\* the most node() calls and the most edge() calls on the flowgraph
MaxNodes == 3

MaxEdges == 2

\* the step names of the calls, in the order the flow means them to run
GSteps == <<"import", "syn", "place">>

\* the indices of the calls: import is a single task, the other steps have
\* up to two
GIndices(step) == IF step = "import" THEN {"0"} ELSE {"0", "1"}

\* the tools node() binds to a task of the step: an external tool, and one
\* built-in of each branch of _gather_outputs ('nop' as run() binds it to
\* import, 'join' and 'maximum' like 'nop' and 'minimum' on the later steps)
GTools(step) ==
    CASE step = "import" -> {"yosys", "nop"}
      [] step = "syn"    -> {"yosys", "nop", "minimum"}
      [] OTHER           -> {"yosys", "join", "maximum"}

\* the position of step s in GSteps
StepPos(s) == CHOOSE i \in 1..Len(GSteps) : GSteps[i] = s

\* the number of edges of the flowgraph
RECURSIVE EdgeCount(_, _)
EdgeCount(g, i) ==
    IF i > Len(g.nodes) THEN 0
    ELSE Len(g.input[g.nodes[i]]) + EdgeCount(g, i + 1)

\* node(flow, step, tool, index): binds the tool to a new task
node(g, step, tool, index) ==
    LET n == <<step, index>>
    IN  [nodes |-> Append(g.nodes, n),
         tool  |-> (n :> tool) @@ g.tool,
         input |-> (n :> <<>>) @@ g.input]

\* edge(flow, tail, head, tail_index, head_index): appends (tail, tail_index)
\* to the input list of head/head_index
edge(g, tail, head, tail_index, head_index) ==
    LET h == <<head, head_index>>
    IN  [g EXCEPT !.input[h] = Append(@, <<tail, tail_index>>)]

\* chip.node('graph', step, tool, index) on a task not declared yet; the
\* steps are declared in the order of the flow
GNode ==
    \E i \in 1..Len(GSteps) :
    \E index \in GIndices(GSteps[i]), tool \in GTools(GSteps[i]) :
        /\ Len(graph.nodes) < MaxNodes
        /\ ~InSeq(<<GSteps[i], index>>, graph.nodes)
        /\ \A n \in Range(graph.nodes) : StepPos(n[1]) <= i
        /\ graph' = node(graph, GSteps[i], tool, index)
        /\ gres' = NoRes
        /\ UNCHANGED <<enginevars, scfg, shist, serr, sop, sel, hs, pr>>

\* chip.edge('graph', tail, head, tail_index, head_index) between declared
\* tasks, from an earlier step of the flow to a later one
GEdge ==
    \E t \in Range(graph.nodes), h \in Range(graph.nodes) :
        /\ EdgeCount(graph, 1) < MaxEdges
        /\ StepPos(t[1]) < StepPos(h[1])
        /\ graph' = edge(graph, t[1], h[1], t[2], h[2])
        /\ gres' = NoRes
        /\ UNCHANGED <<enginevars, scfg, shist, serr, sop, sel, hs, pr>>

RECURSIVE Instantiate(_, _, _)
\* what reading flowgraph/<flow>/<step>/0/input leaves behind for every step
\* of steps[i..]: a missing <step>/0 is created from the 'default' template,
\* with no tool and no input
Instantiate(g, steps, i) ==
    IF i > Len(steps) THEN g
    ELSE IF InSeq(<<steps[i], "0">>, g.nodes) THEN Instantiate(g, steps, i + 1)
    ELSE Instantiate(node(g, steps[i], "none", "0"), steps, i + 1)

\* chip.list_steps('graph')
GListSteps ==
    /\ graph.nodes # <<>>
    /\ gres' = [NoRes EXCEPT !.op = "list_steps", !.steps = list_steps("graph")]
    /\ graph' = Instantiate(graph, FlowSteps("graph"), 1)
    /\ UNCHANGED <<enginevars, scfg, shist, serr, sop, sel, hs, pr>>

\* the staged filenames of the sources: _get_imported_filename(p) for the
\* paths of _collect_paths()
Imports == {"v"}

\* eda/<tool>/output/<step>/<index> as the setup of the tool declares it; no
\* such parameter for a task without a tool
EdaOutput(tool, n) ==
    IF tool # "yosys" THEN {}
    ELSE IF n[2] = "0" THEN {"x", "y"} ELSE {"x"}

\* eda/<tool>/input/<step>/<index> as the setup of the tool declares it
EdaInput(tool, n) ==
    IF tool # "yosys" THEN {}
    ELSE CASE n[1] = "syn"   -> {"v"}
           [] n[1] = "place" -> {"y"}
           [] OTHER          -> {}

\* the union of the outputs of the input tasks, whatever the built-in
GatherUnion(tool, outs) ==
    UNION {outs[i] : i \in 1..Len(outs)}

\* the built-in branch of _gather_outputs on the outputs of the input tasks
GatherBuiltin(tool, outs) ==
    IF tool \in {"minimum", "maximum"}
    THEN {x \in UNION {outs[i] : i \in 1..Len(outs)} :
              \A i \in 1..Len(outs) : x \in outs[i]}
    ELSE IF tool \in {"join", "nop"}
    THEN UNION {outs[i] : i \in 1..Len(outs)}
    ELSE {}

RECURSIVE _gather_outputs(_, _)
\* the filenames in the outputs directory after a successful run of task n
_gather_outputs(f, n) ==
    LET tool    == FlowTool(f, n)
        ins     == FlowInput(f, n)
        outputs == IF tool \in builtin
                   THEN GatherBuiltin(tool,
                            [i \in 1..Len(ins) |-> _gather_outputs(f, ins[i])])
                   ELSE EdaOutput(tool, n)
    IN  IF n[1] = "import" THEN outputs \cup Imports ELSE outputs

\* chip._gather_outputs(step, index) on a declared task
GGather ==
    \E n \in Range(graph.nodes) :
        /\ gres' = [NoRes EXCEPT !.op = "gather", !.node = n,
                                 !.files = _gather_outputs("graph", n)]
        /\ UNCHANGED graph
        /\ UNCHANGED <<enginevars, scfg, shist, serr, sop, sel, hs, pr>>

RECURSIVE TasksOf(_, _, _)
\* the tasks the loops of _check_flowgraph_io visit: for each step of
\* steps[i..], its indices in dictionary order
TasksOf(ns, steps, i) ==
    IF i > Len(steps) THEN <<>>
    ELSE NodesOfStep(ns, steps[i]) \o TasksOf(ns, steps, i + 1)

\* the local variable 'inputs' before its first assignment
Unbound == [bound |-> FALSE, files |-> {}]

RECURSIVE CheckTasks(_, _, _, _, _, _)
\* the loop of _check_flowgraph_io from task tasks[i] on; inputs is the value
\* the local variable holds from the tasks before, dir the listing of an
\* outputs directory on disk
CheckTasks(f, steps, tasks, i, inputs, dir) ==
    IF i > Len(tasks) THEN "true"
    ELSE LET n    == tasks[i]
             tool == FlowTool(f, n)
             ins  == FlowInput(f, n)
             inp  == IF Len(ins) > 1 THEN inputs
                     ELSE IF Len(ins) > 0
                     THEN IF ~InSeq(ins[1][1], steps)
                          THEN [bound |-> TRUE, files |-> dir]
                          ELSE [bound |-> TRUE, files |-> _gather_outputs(f, ins[1])]
                     ELSE [bound |-> TRUE, files |-> {}]
             req  == EdaInput(tool, n)
         IN  IF tool \in builtin THEN CheckTasks(f, steps, tasks, i + 1, inputs, dir)
             ELSE IF req = {} THEN CheckTasks(f, steps, tasks, i + 1, inp, dir)
             ELSE IF ~inp.bound THEN "raise"
             ELSE IF req \subseteq inp.files
             THEN CheckTasks(f, steps, tasks, i + 1, inp, dir)
             ELSE "false"

\* _check_flowgraph_io with the steplist parameter at param (<<>>: not set):
\* "true", "false", or "raise" for the UnboundLocalError
_check_flowgraph_io(f, param, dir) ==
    LET steps == IF param = <<>> THEN list_steps(f) ELSE param
        tasks == TasksOf(FlowNodes(f), steps, 1)
    IN  IF Len(steps) < 2 THEN "true"
        ELSE CheckTasks(f, steps, tasks, 1, Unbound, dir)

\* the listings of an outputs directory of an earlier job
Dirs == {{}, {"v", "x", "y"}}

\* the values of the steplist parameter: not set, or the steps of the flow
\* from some step on
StepLists(f) ==
    LET steps == list_steps(f)
    IN  {<<>>} \cup {SubSeq(steps, i, Len(steps)) : i \in 2..Len(steps)}

\* chip._check_flowgraph_io()
GCheckIO ==
    /\ graph.nodes # <<>>
    /\ \E param \in StepLists("graph"), dir \in Dirs :
        LET r == _check_flowgraph_io("graph", param, dir)
        IN  /\ gres' = [NoRes EXCEPT !.op = "check_io",
                            !.steps = IF param = <<>> THEN list_steps("graph")
                                      ELSE param,
                            !.files = dir,
                            !.ok = (r = "true"),
                            !.raised = (r = "raise")]
            /\ graph' = IF param = <<>>
                        THEN Instantiate(graph, FlowSteps("graph"), 1)
                        ELSE graph
            /\ UNCHANGED <<enginevars, scfg, shist, serr, sop, sel, hs, pr>>

InitGraph ==
    /\ EngineIdle
    /\ scfg = ("param" :> Leaf("str"))
    /\ shist = <<>>
    /\ serr = 0
    /\ sop = NoCall
    /\ graph = EmptyGraph
    /\ gres = NoRes
    /\ sel = NoSel
    /\ hs = NoHash
    /\ pr = NoPrune

NextGraph ==
    \/ GNode
    \/ GEdge
    \/ GListSteps
    \/ GGather
    \/ GCheckIO

\* node() and edge() calls, and the calls that read the flowgraph
SpecGraph == InitGraph /\ [][NextGraph]_vars

\* what _search leaves behind when it descends through
\* flowgraph/graph/<step>/<index>: a key that is missing next to a 'default'
\* key is created as a deep copy of the template, whatever the mode
Descend(g, n) == IF InSeq(n, g.nodes) THEN g ELSE node(g, n[1], "none", n[2])

\* the read calls on a leaf: get, getkeys and getdict (_search in the modes
\* 'get', 'getkeys' and 'getcfg')
ReadCalls == {"get", "getkeys", "getdict"}

\* chip.get('flowgraph', 'graph', step, index, 'tool'), or getkeys or getdict
\* on the same keypath
GRead ==
    \E i \in 1..Len(GSteps), call \in ReadCalls :
    \E index \in GIndices(GSteps[i]) :
        /\ InSeq(<<GSteps[i], index>>, graph.nodes) \/ Len(graph.nodes) < MaxNodes
        /\ graph' = Descend(graph, <<GSteps[i], index>>)
        /\ gres' = [NoRes EXCEPT !.op = call, !.node = <<GSteps[i], index>>]
        /\ UNCHANGED <<enginevars, scfg, shist, serr, sop, sel, hs, pr>>

\* chip.getkeys('flowgraph', 'graph'): the steps of the flow
GGetKeys ==
    /\ graph.nodes # <<>>
    /\ gres' = [NoRes EXCEPT !.op = "getkeys", !.steps = FlowSteps("graph")]
    /\ UNCHANGED <<graph, enginevars, scfg, shist, serr, sop, sel, hs, pr>>

NextRead ==
    \/ GNode
    \/ GEdge
    \/ GRead
    \/ GGetKeys

\* node(), edge() and read calls on the flowgraph of a Chip
SpecRead == InitGraph /\ [][NextRead]_vars

(***************************************************************************)
(* minimum and maximum as functions: the flow 'sel' has the candidates     *)
(* place/0 and place/1 and the selecting task pick/0; the weights, goals,  *)
(* error flags and metric values are drawn at the start, then the          *)
(* selectors are called on them.                                           *)
(***************************************************************************)
\* metric 'real' values of the candidates range over -MaxReal..MaxReal
MaxReal == 2

\* weights range over 0..MaxWeight
MaxWeight == 2

Candidates == {<<"place", "0">>, <<"place", "1">>}

Picker == <<"pick", "0">>

\* the result of a selector before any call
NoWinner == [exc |-> FALSE, winner |-> None, inf |-> 0, num |-> 0, den |-> 1]

\* no assertion passed
NoAssertion == [op |-> "", goal |-> 0]

\* every setting of the flow 'sel': a weight on each node, a goal or none on
\* each candidate, and in the schema of the selecting task an error flag and
\* a metric value for each candidate
SelInputs ==
    {[weight |-> [n \in FlowNodeSet("sel") |->
                     IF n = Picker THEN wp ELSE w[n]],
      goal   |-> [n \in FlowNodeSet("sel") |->
                     IF n = Picker THEN None ELSE g[n]],
      c      |-> [flowstatus |-> [n \in FlowNodeSet("sel") |->
                                     IF n = Picker THEN Some(1) ELSE Some(e[n])],
                  select     |-> [n \in FlowNodeSet("sel") |-> <<>>],
                  metric     |-> [n \in FlowNodeSet("sel") |->
                                     [m \in Range(Metrics) |->
                                         IF n = Picker THEN Some(0) ELSE Some(r[n])]]],
      op     |-> "none",
      steps  |-> <<>>,
      res    |-> NoWinner,
      assertion |-> NoAssertion,
      ok     |-> TRUE] :
        wp \in 0..MaxWeight,
        w \in [Candidates -> 0..MaxWeight],
        g \in [Candidates -> {None, Some(1)}],
        e \in [Candidates -> {0, 1}],
        r \in [Candidates -> (0 - MaxReal)..MaxReal]}

\* the argument lists of the calls
SelSteps ==
    {<< <<"place", "0">> >>, << <<"place", "0">>, <<"place", "1">> >>,
     << <<"place", "1">>, <<"place", "0">> >>}

\* chip.minimum(*steps) in the process of pick/0
SelMinimum ==
    \E steps \in SelSteps :
        /\ sel' = [sel EXCEPT !.op = "minimum", !.steps = steps,
                              !.res = minimum("sel", Picker, sel.c, steps),
                              !.assertion = NoAssertion, !.ok = TRUE]
        /\ UNCHANGED <<enginevars, scfg, shist, serr, sop, graph, gres, hs, pr>>

\* chip.maximum(*steps) in the process of pick/0
SelMaximum ==
    \E steps \in SelSteps :
        /\ sel' = [sel EXCEPT !.op = "maximum", !.steps = steps,
                              !.res = maximum("sel", Picker, sel.c, steps),
                              !.assertion = NoAssertion, !.ok = TRUE]
        /\ UNCHANGED <<enginevars, scfg, shist, serr, sop, graph, gres, hs, pr>>

\* the assertions passed to verify: errors <= 0 (written errors=0 or
\* errors='<=0') and errors > 0
Assertions == {[op |-> "<=", goal |-> 0], [op |-> ">", goal |-> 0]}

\* chip.verify(*steps, errors=...) in the process of pick/0
SelVerify ==
    \E steps \in SelSteps, a \in Assertions :
        /\ sel' = [sel EXCEPT !.op = "verify", !.steps = steps,
                              !.res = NoWinner, !.assertion = a,
                              !.ok = verify(steps)]
        /\ UNCHANGED <<enginevars, scfg, shist, serr, sop, graph, gres, hs, pr>>

InitMinmax ==
    /\ EngineIdle
    /\ scfg = ("param" :> Leaf("str"))
    /\ shist = <<>>
    /\ serr = 0
    /\ sop = NoCall
    /\ graph = EmptyGraph
    /\ gres = NoRes
    /\ sel \in SelInputs
    /\ hs = NoHash
    /\ pr = NoPrune

NextMinmax ==
    \/ SelMinimum
    \/ SelMaximum
    \/ SelVerify

\* calls of minimum, maximum and verify on every setting of the flow 'sel'
SpecMinmax == InitMinmax /\ [][NextMinmax]_vars


(***************************************************************************)
(* File hashes: one list-typed file parameter, the calls of set and add on *)
(* its 'value' and 'filehash' fields, and hash_files (specification        *)
(* SpecHash).  The parameter is 'source' (any keypath that find_files      *)
(* resolves through _find_sc_file) or eda/<tool>/output/<step>/<index>     *)
(* (resolved in the outputs directory of the task).  A file system maps a  *)
(* path to "none" (nothing there), "dir" (a directory) or the hash of the  *)
(* content of the regular file.                                            *)
(***************************************************************************)
MaxFiles == 3

Paths == {"a", "b"}

Hashes == {"h1", "h2"}

FileKinds == {"source", "output"}

FileSystems == [Paths -> {"none", "dir"} \cup Hashes]

\* the arguments of set and add: one string or a list of strings
ScalarArg(xs) == [list |-> FALSE, xs |-> xs]

ListArg(xs) == [list |-> TRUE, xs |-> xs]

HashArgs(S) ==
    {ScalarArg(<<x>>) : x \in S}
    \cup {ListArg(<<>>)}
    \cup {ListArg(<<x>>) : x \in S}
    \cup {ListArg(<<x, y>>) : x \in S, y \in S}

\* _search in mode 'set' on a leaf of list type whose lock is not set:
\* the value is replaced when the 'value' field is empty or clobber is
\* passed, whatever the field; a scalar becomes a list of one item
SetField(p, field, val, clobber) ==
    IF p.value = <<>> \/ clobber
    THEN IF field = "filehash" THEN [p EXCEPT !.filehash = val.xs]
         ELSE [p EXCEPT !.value = val.xs]
    ELSE p

\* _search in mode 'add' on a leaf of list type whose lock is not set: one
\* item is appended to 'filehash'; 'value' is appended to or extended
AddField(p, field, val) ==
    IF field = "filehash" THEN [p EXCEPT !.filehash = @ \o val.xs]
    ELSE [p EXCEPT !.value = @ \o val.xs]

\* find_files: for an eda output only the paths that are regular files in
\* the outputs directory; otherwise _find_sc_file, which returns the path
\* when something exists there and None (with the error flag) when not
find_files(kind, value, fs) ==
    IF kind = "output"
    THEN [result |-> SelectSeq([i \in 1..Len(value) |-> Some(value[i])],
                               LAMBDA x : fs[x[1]] \in Hashes),
          err    |-> FALSE]
    ELSE [result |-> [i \in 1..Len(value) |->
                         IF fs[value[i]] = "none" THEN None ELSE Some(value[i])],
          err    |-> \E i \in 1..Len(value) : fs[value[i]] = "none"]

\* the hashlist of hash_files: one hash for each path that is a regular file
HashList(filelist, fs) ==
    LET files == SelectSeq(filelist, LAMBDA x : fs[x[1]] \in Hashes)
    IN  [i \in 1..Len(files) |-> fs[files[i][1]]]

\* "compare previous hash to new hash": some old hash differs from the new
\* hash at its position
Mismatch(oldhash, hashlist) ==
    \E i \in 1..Len(oldhash) : i <= Len(hashlist) /\ oldhash[i] # hashlist[i]

\* hash_files(*keypath) on a parameter of a file type: os.path.isfile(None)
\* raises TypeError and hashlist[i] raises IndexError when the old list is
\* the longer one; otherwise the new list is set as the filehash
hash_files(p, fs) ==
    LET found    == find_files(p.kind, p.value, fs)
        hashlist == HashList(found.result, fs)
        notfile  == \E i \in 1..Len(found.result) :
                       found.result[i] # None /\ fs[found.result[i][1]] \notin Hashes
        mism     == Mismatch(p.filehash, hashlist)
        e1       == IF found.err THEN 1 ELSE p.err
    IN  IF \E i \in 1..Len(found.result) : found.result[i] = None
        THEN [p EXCEPT !.err = e1, !.op = "hash_files", !.raised = TRUE,
                       !.mismatch = FALSE]
        ELSE IF Len(p.filehash) > Len(hashlist)
        THEN [p EXCEPT !.err = IF notfile \/ mism THEN 1 ELSE e1,
                       !.op = "hash_files", !.raised = TRUE, !.mismatch = mism]
        ELSE [p EXCEPT !.err = IF notfile \/ mism THEN 1 ELSE e1,
                       !.op = "hash_files", !.raised = FALSE, !.mismatch = mism,
                       !.filehash = hashlist]

\* chip.set(*keypath, val, field=field, clobber=clobber)
HSet ==
    \E field \in {"value", "filehash"}, clobber \in BOOLEAN :
    \E val \in HashArgs(IF field = "value" THEN Paths ELSE Hashes) :
        /\ hs' = [SetField(hs, field, val, clobber) EXCEPT
                     !.op = "set", !.raised = FALSE, !.mismatch = FALSE]
        /\ UNCHANGED <<enginevars, scfg, shist, serr, sop, graph, gres, sel, pr>>

\* chip.add(*keypath, val, field=field)
HAdd ==
    \E field \in {"value", "filehash"} :
    \E val \in IF field = "value" THEN HashArgs(Paths)
               ELSE {ScalarArg(<<x>>) : x \in Hashes} :
        LET p == AddField(hs, field, val)
        IN  /\ Len(p.value) <= MaxFiles
            /\ Len(p.filehash) <= MaxFiles
            /\ hs' = [p EXCEPT !.op = "add", !.raised = FALSE, !.mismatch = FALSE]
            /\ UNCHANGED <<enginevars, scfg, shist, serr, sop, graph, gres, sel, pr>>

\* chip.hash_files(*keypath), on the files that are there at the call
HHashFiles ==
    \E fs \in FileSystems :
        /\ hs' = hash_files(hs, fs)
        /\ UNCHANGED <<enginevars, scfg, shist, serr, sop, graph, gres, sel, pr>>

InitHash ==
    /\ EngineIdle
    /\ scfg = ("param" :> Leaf("str"))
    /\ shist = <<>>
    /\ serr = 0
    /\ sop = NoCall
    /\ graph = EmptyGraph
    /\ gres = NoRes
    /\ sel = NoSel
    /\ hs \in {[NoHash EXCEPT !.kind = k] : k \in FileKinds}
    /\ pr = NoPrune

NextHash ==
    \/ HSet
    \/ HAdd
    \/ HHashFiles

\* calls of set, add and hash_files on a list-typed file parameter
SpecHash == InitHash /\ [][NextHash]_vars


(***************************************************************************)
(* _prune on a nested schema (specification SpecPrune).  A schema is the   *)
(* set of the keypaths of its branches and a function from the keypaths of *)
(* its leaves to the leaves.  A leaf is [help, example, defvalue, value]:  *)
(* help and example tell whether the leaf still has the key; defvalue and  *)
(* value are "None", "null", "[]" or "set", and value is "nokey" when the  *)
(* leaf has no 'value' key.                                                *)
(***************************************************************************)
MaxDepth == 9

\* "10 should be enough for anyone..."
maxdepth == 10

\* the keys of the keypath to the leaf of the model, level by level
ChainKeys == <<"k1", "k2", "k3", "k4", "k5", "k6", "k7", "k8", "k9", "k10">>

TreeNodes(t) == t.branches \cup DOMAIN t.leaves

IsPrefix(a, p) == Len(a) <= Len(p) /\ SubSeq(p, 1, Len(a)) = a

\* the branch at p holds no key
EmptyBranch(t, p) ==
    /\ p \in t.branches
    /\ ~\E q \in TreeNodes(t) : q # p /\ IsPrefix(p, q)

\* empty of _prune
PruneEmpty(keeplists) == IF keeplists THEN {"null", "None"} ELSE {"null", "None", "[]"}

\* a pass reaches the key at p: no dictionary above it is a 'default' key
\* (a dictionary above it holds p, so it is not a stale branch)
Reached(p) == \A i \in 1..(Len(p) - 1) : p[i] # "default"

\* the pass deletes the key at p: a 'default' key, a leaf cell stripped of
\* help and example whose defvalue and value are empty, or a stale branch
Deleted(t, p, keeplists) ==
    /\ Reached(p)
    /\ \/ p[Len(p)] = "default"
       \/ /\ p \in DOMAIN t.leaves
          /\ ~t.leaves[p].help
          /\ ~t.leaves[p].example
          /\ t.leaves[p].defvalue \in PruneEmpty(keeplists)
          /\ t.leaves[p].value \in PruneEmpty(keeplists) \cup {"nokey"}
       \/ EmptyBranch(t, p)

\* one pass of the while loop over the whole tree: each key is visited once,
\* a dictionary before the keys it holds, and one branch of the if/elif
\* chain is taken for it
PrunePass(t, keeplists) ==
    LET gone == {p \in TreeNodes(t) :
                    \E a \in TreeNodes(t) : IsPrefix(a, p) /\ Deleted(t, a, keeplists)}
        kept == DOMAIN t.leaves \ gone
    IN  [branches |-> t.branches \ gone,
         leaves   |-> [p \in kept |->
                          IF t.leaves[p].help THEN [t.leaves[p] EXCEPT !.help = FALSE]
                          ELSE IF t.leaves[p].example
                          THEN [t.leaves[p] EXCEPT !.example = FALSE]
                          ELSE t.leaves[p]]]

RECURSIVE PrunePasses(_, _, _)
PrunePasses(t, keeplists, i) ==
    IF i = 0 THEN t ELSE PrunePasses(PrunePass(t, keeplists), keeplists, i - 1)

\* _prune(cfg, keeplists=keeplists) called at the top: maxdepth passes over
\* a deep copy
PruneTree(t, keeplists) == PrunePasses(t, keeplists, maxdepth)

\* the leaves of the schema of the model
LeafCells ==
    [help : BOOLEAN, example : BOOLEAN, defvalue : {"None", "[]", "set"},
     value : {"nokey", "None", "null", "[]", "set"}]

\* a leaf that holds a value
SetCell == [help |-> TRUE, example |-> TRUE, defvalue |-> "None", value |-> "set"]

\* the keypath of d keys along ChainKeys
ChainPath(d) == SubSeq(ChainKeys, 1, d)

\* the schemas of the model: one leaf at the end of a keypath of d keys, a
\* 'default' template next to the key of level dpos of the keypath (none
\* for 0), and, with extra, a set leaf at the top
PruneInputsOf(d) ==
    {[branches |-> {ChainPath(i) : i \in 1..(d - 1)},
      leaves   |-> (ChainPath(d) :> cell)
                   @@ (IF dpos = 0 THEN <<>>
                       ELSE (ChainPath(dpos - 1) \o <<"default">>) :> SetCell)
                   @@ (IF extra THEN <<"top">> :> SetCell ELSE <<>>)] :
        cell \in LeafCells, dpos \in {0, 1, d}, extra \in BOOLEAN}

PruneInputs == UNION {PruneInputsOf(d) : d \in 1..MaxDepth}

\* self._prune(cfg, keeplists=keeplists), as write_manifest calls it
PPrune ==
    /\ pr.op = "none"
    /\ pr' = [pr EXCEPT !.op = "prune", !.res = PruneTree(pr.cfg, pr.keeplists)]
    /\ UNCHANGED <<enginevars, scfg, shist, serr, sop, graph, gres, sel, hs>>

InitPrune ==
    /\ EngineIdle
    /\ scfg = ("param" :> Leaf("str"))
    /\ shist = <<>>
    /\ serr = 0
    /\ sop = NoCall
    /\ graph = EmptyGraph
    /\ gres = NoRes
    /\ sel = NoSel
    /\ hs = NoHash
    /\ \E t \in PruneInputs, keeplists \in BOOLEAN :
          pr = [cfg |-> t, keeplists |-> keeplists, op |-> "none", res |-> NoTree]

NextPrune == PPrune

\* a call of _prune on every schema of the model
SpecPrune == InitPrune /\ [][NextPrune]_vars


(***************************************************************************)
(* Properties of the run engine.                                           *)
(***************************************************************************)
\* some input of n has its active bit at 1
InputActive(n) ==
    \E i \in 1..Len(Inputs(n)) : active[stepstr(Inputs(n)[i])] = 1

\* the stages in which a worker has not gone past the wait loop
BeforeWork == {"none", "init", "wait", "exited"}

\* the worker of n has written outputs/<design>.pkg.json
Emitted(n) == wpc[n] \in {"clrerr", "clract"} \/ wend[n] = "returned"

\* the worker of n has exited, and error[n] was e as it did
FinishedWith(n, e) == wbits[n] # <<>> /\ wbits[n][1] = e

\* the selection of a selecting task, once made
SelectedOf(n) ==
    IF wpc[n] \in {"stage", "check", "pre", "exe", "post", "emit", "clrerr", "clract"}
                   \cup OutcomeStages
    THEN wcfg[n].select[n]
    ELSE IF wend[n] = "returned" /\ disk[n] # None THEN disk[n][1].select[n]
    ELSE <<>>

\* u is among the selected inputs of n: all inputs for a tool, join, nop or
\* verify task
Feeds(u, n) ==
    IF FlowTool(flow, n) \in {"minimum", "maximum", "mux"}
    THEN InSeq(u, SelectedOf(n))
    ELSE InSeq(u, Inputs(n))

\* C1: in every interleaving, while some input of (s,i) has active = 1 the
\* worker of (s,i) takes no step beyond the wait loop: it does not wipe or
\* create its directory, merge a manifest, select inputs, or invoke a hook
\* or the executable.
C1_NoWorkWhileInputActive ==
    [][\A n \in Nodes :
          (runpc = "join" /\ InputActive(n))
          => /\ wpc[n] \in BeforeWork
             /\ wpc'[n] \in BeforeWork
             /\ disk'[n] = disk[n]
             /\ did'[n] = did[n]
             /\ (wcfg'[n] = wcfg[n] \/ wpc'[n] = "exited")]_vars

\* a worker is held in the wait loop while one of its inputs is at work
C1_Witness ==
    /\ runpc = "join"
    /\ \E n \in Nodes :
          /\ wpc[n] = "wait"
          /\ InputActive(n)
          /\ \E i \in 1..Len(Inputs(n)) : wpc[Inputs(n)[i]] = "exe"

\* C2: if a task (u,j) of the slice finishes with error = 1, every task of
\* the slice that has (u,j) among its selected inputs never runs its
\* pre-process hook or its executable, writes no output manifest, and
\* finishes with error = 1 and active = 0.  (Applied to that task in turn,
\* this gives the transitive statement.)
C2_ErrorPropagates ==
    \A u \in Nodes : \A n \in slice :
        (u \in slice /\ FinishedWith(u, 1) /\ Feeds(u, n))
        => /\ did[n] = {}
           /\ ~Emitted(n)
           /\ (wpc[n] = "exited" => wbits[n] = <<1, 0>>)

\* C3: a worker that goes through all its steps without halting leaves, at
\* its exit, an output manifest that records flowstatus/s/i/error = 0, and
\* error[s,i] = 0 and active[s,i] = 0.
C3_SuccessPublished ==
    \A n \in Nodes :
        wend[n] = "returned"
        => /\ disk[n] # None
           /\ disk[n][1].flowstatus[n] = Some(0)
           /\ wbits[n] = <<0, 0>>
           /\ error[stepstr(n)] = 0
           /\ active[stepstr(n)] = 0

\* a worker of a tool task with an input has returned
C3_Witness ==
    \E n \in Nodes :
        wend[n] = "returned" /\ Inputs(n) # <<>> /\ did[n] = {"pre", "exe"}

\* C4: if the runner of a task halts or any exception is raised while it
\* runs, then as the worker exits error[n] = 1 and active[n] = 0; a worker
\* never exits leaving active[n] = 1.
C4_ExitClearsActive ==
    \A n \in Nodes :
        wpc[n] = "exited"
        => /\ wbits[n][2] = 0
           /\ (wend[n] # "returned" => wbits[n][1] = 1)

C6_FailedCheckExitsOne ==
    (chiperror # 0 /\ runpc \notin {"start", "check"})
    => /\ runpc = "exited"
       /\ exitcode = 1
       /\ \A n \in Nodes : wpc[n] = "none"

RECURSIVE UpstreamOf(_, _)
\* the transitive upstream tasks of n, through at most k edges
UpstreamOf(n, k) ==
    IF k = 0 THEN {}
    ELSE LET direct == Range(Inputs(n))
         IN  direct \cup UNION {UpstreamOf(u, k - 1) : u \in direct}

\* C7: a task whose transitive upstream tasks all finish with error = 0 and
\* whose own tool and hooks succeed completes with error = 0 and emits its
\* manifest, whatever becomes of the tasks that are not among its upstreams.
C7_PeersDoNotAbort ==
    \A n \in slice :
        ( /\ wpc[n] = "exited"
          /\ wend[n] \notin {"halted", "sysexit"}
          /\ \A u \in UpstreamOf(n, Len(FlowNodes(flow))) :
                u \in slice /\ FinishedWith(u, 0) )
        => /\ wend[n] = "returned"
           /\ wbits[n] = <<0, 0>>
           /\ disk[n] # None


(***************************************************************************)
(* Properties of the schema store (specification SpecSchema).  sop' is the *)
(* call a step makes, scfg the schema before it and scfg' the schema after *)
(* it.                                                                     *)
(***************************************************************************)
\* the step is a call of op on the 'value' field of a key the schema holds
\* and whose lock is not set
CallOnUnlocked(op) ==
    /\ sop'.op = op
    /\ sop'.field = "value"
    /\ sop'.key \in DOMAIN scfg
    /\ scfg[sop'.key].lock = "false"

\* x is a value of the item type of ty
LegalItem(ty, x) ==
    CASE ElemType(ty) = "(str,str)" ->
             /\ x.t = "tuple"
             /\ Len(x.xs) = 2
             /\ \A i \in 1..2 : x.xs[i].t = "str"
      [] OTHER -> x.t = ElemType(ty)

\* v is a value of the declared type ty: an item, or for a list type a list
\* of items
LegalValue(ty, v) ==
    IF v.t = "list"
    THEN IsListType(ty) /\ \A i \in 1..Len(v.xs) : LegalItem(ty, v.xs[i])
    ELSE LegalItem(ty, v)

\* v up to the declared coercion: a scalar given to a list parameter comes
\* back as a one-element list
Coerced(ty, v) == IF IsListType(ty) /\ v.t # "list" THEN PyList(<<v>>) ELSE v

\* C8: get(k) right after set(k, v) with the default clobber, on an existing
\* unlocked parameter and with v legal for its type, returns v up to the
\* declared coercion.
C8_GetAfterSet ==
    [][(/\ CallOnUnlocked("set")
        /\ sop'.clobber
        /\ LegalValue(scfg[sop'.key].type, sop'.val))
       => get(scfg', sop'.key).ret = Coerced(scfg[sop'.key].type, sop'.val)]_vars

\* C9: add(k, w) with a scalar w on an unlocked list parameter whose value
\* reads [v1..vn] makes get(k) return [v1..vn, w].
C9_AddAppends ==
    [][(/\ CallOnUnlocked("add")
        /\ IsListType(scfg[sop'.key].type)
        /\ sop'.val.t # "list"
        /\ LegalValue(scfg[sop'.key].type, sop'.val)
        /\ get(scfg, sop'.key).ret.t = "list")
       => get(scfg', sop'.key).ret
              = PyList(Append(get(scfg, sop'.key).ret.xs, sop'.val))]_vars

\* get(k) is neither null nor an empty list (and does not raise)
NonEmpty(r) == r.t \notin {"NoneType", "raise"} /\ r # PyList(<<>>)

\* C10: set(k, v, clobber=False) on a parameter whose value is non-empty (a
\* boolean set to false included) leaves every field of k as it was.
C10_NoClobberNoOp ==
    [][(/\ sop'.op = "set"
        /\ ~sop'.clobber
        /\ sop'.key \in DOMAIN scfg
        /\ NonEmpty(get(scfg, sop'.key).ret))
       => scfg'[sop'.key] = scfg[sop'.key]]_vars


\* C12: a set or add through a key not yet present under a parent that
\* holds a 'default' template creates the key from a copy of the template:
\* the template and every other instance keep their content, the new
\* instance has the type and lock of the template, and getkeys(parent) lists
\* the new key.
C12_DefaultInstantiated ==
    [][(/\ sop'.op \in {"set", "add"}
        /\ sop'.key \notin DOMAIN scfg
        /\ "default" \in DOMAIN scfg)
       => /\ DOMAIN scfg' = DOMAIN scfg \cup {sop'.key}
          /\ \A k \in DOMAIN scfg : scfg'[k] = scfg[k]
          /\ scfg'[sop'.key].type = scfg["default"].type
          /\ (sop'.field = "value" => scfg'[sop'.key].lock = scfg["default"].lock)
          /\ InSeq(PyStr(<<sop'.key>>), getkeys(scfg').xs)]_vars

\* a write of the value field created the key lib next to the instance
\* param, and the three parameters hold three different values
C12_Witness ==
    /\ sop.op \in {"set", "add"}
    /\ sop.field = "value"
    /\ sop.new
    /\ DOMAIN scfg = {"default", "param", "lib"}
    /\ scfg[sop.key].value # scfg["default"].value
    /\ scfg["param"].value # scfg["default"].value
    /\ scfg["param"].value # scfg[sop.key].value

\* C13: getkeys never reports 'default': not among the keys getkeys(parent)
\* returns, and not as a segment of a keypath getkeys() returns.
C13_NeverReportsDefault ==
    /\ sop.op = "getkeys" => ~InSeq(PyStr(<<"default">>), sop.ret.xs)
    /\ sop.op = "allkeys" =>
          \A i \in 1..Len(sop.ret.xs) : ~InSeq(PyStr(<<"default">>), sop.ret.xs[i].xs)

\* the call mode(k, val) on the value field is a schema violation: the
\* keypath does not exist, the value fails the type check, add is applied to
\* a scalar, or a list is assigned to a scalar
SchemaViolation(c, k, mode, val) ==
    IF k \notin DOMAIN c /\ "default" \notin DOMAIN c THEN TRUE
    ELSE LET p == IF k \in DOMAIN c THEN c[k] ELSE c["default"]
         IN  \/ ~_typecheck(p, val)
             \/ ~IsListType(p.type) /\ (mode = "add" \/ val.t = "list")

\* C14: a set or add that is a schema violation sets the error flag and has
\* no other effect: no value is stored and no key is created.
C14_ViolationHasNoEffect ==
    [][(/\ sop'.op \in {"set", "add"}
        /\ sop'.field = "value"
        /\ SchemaViolation(scfg, sop'.key, sop'.op, sop'.val))
       => (serr' = 1 /\ scfg' = scfg)]_vars

(***************************************************************************)
(* Properties of set, add, get and merge_manifest together (specification  *)
(* SpecManifest).                                                          *)
(***************************************************************************)
\* C11: once the lock field of a parameter is true, no set, add or
\* merge_manifest call changes any field of the parameter, the lock field
\* included.
C11_LockedIsImmutable ==
    [][\A k \in DOMAIN scfg :
          scfg[k].lock = "true" => (k \in DOMAIN scfg' /\ scfg'[k] = scfg[k])]_vars

\* a set of the lock field to False with clobber on a locked parameter: the
\* lock was set before the call
C11_Witness ==
    /\ sop.op = "set"
    /\ sop.field = "lock"
    /\ sop.val = PyBool(FALSE)
    /\ sop.clobber
    /\ sop.key \in DOMAIN scfg
    /\ scfg[sop.key].lock = "true"
    /\ scfg[sop.key].value # Leaf(scfg[sop.key].type).value

C16_ManifestRoundTrip ==
    (sop.op = "roundtrip" /\ sop.val # Raised) => sop.ret = sop.val

(***************************************************************************)
(* Properties of the job history (specification SpecHistory).              *)
(***************************************************************************)
\* get() on a manifest that holds the value v for a parameter of type ty
ManifestGet(ty, v) == GetLeaf([Leaf(ty) EXCEPT !.value = v])

\* C17: read_manifest(f, job=j) keeps the manifests per job: get(k, job=j)
\* returns the value recorded in the manifest of j, what get returns for
\* the other jobs does not change, and the active schema is unchanged.
C17_JobsKeptApart ==
    [][(/\ sop'.op = "readjob"
        /\ sop'.ret # Raised)
       => /\ scfg' = scfg
          /\ \A j \in DOMAIN shist \ {sop'.job} :
                j \in DOMAIN shist' /\ get(shist'[j], "param") = get(shist[j], "param")
          /\ get(shist'[sop'.job], "param").ret
                = ManifestGet(SchemaType(scfg), sop'.val)]_vars


(***************************************************************************)
(* Properties of the flowgraph calls (SpecGraph).                          *)
(***************************************************************************)
\* the position of step s in the list steps, 0 when it is not there
IndexOf(steps, s) ==
    IF InSeq(s, steps) THEN CHOOSE i \in 1..Len(steps) : steps[i] = s ELSE 0

\* C18: list_steps(flow) is a topological order of the steps: for every edge
\* declared with edge(flow, t, h, tail_index, head_index), whatever the two
\* indices, step t comes before step h in the returned list
C18_TopologicalOrder ==
    gres.op = "list_steps" =>
        \A h \in Range(graph.nodes) :
            \A j \in 1..Len(graph.input[h]) :
                LET t == graph.input[h][j]
                IN  /\ IndexOf(gres.steps, t[1]) > 0
                    /\ IndexOf(gres.steps, t[1]) < IndexOf(gres.steps, h[1])

\* the outputs of the input tasks of n, as a set of sets of filenames
Upstream(n) ==
    {_gather_outputs("graph", graph.input[n][i]) : i \in 1..Len(graph.input[n])}

\* the filenames that are in every set of the family ss (none for no set)
Common(ss) == {x \in UNION ss : \A fs \in ss : x \in fs}

\* C19: for a join or nop node _gather_outputs is the union of the outputs of
\* all its inputs, for a minimum or maximum node their intersection, for a
\* tool node the declared output list of the tool, plus the staged import
\* filenames when the step is import
C19_GatherOutputs ==
    gres.op = "gather" =>
        LET n    == gres.node
            tool == graph.tool[n]
        IN  /\ tool \in {"join", "nop"} => gres.files = UNION Upstream(n)
            /\ tool \in {"minimum", "maximum"} => gres.files = Common(Upstream(n))
            /\ tool \notin builtin =>
                   gres.files = EdaOutput(tool, n) \cup
                                (IF n[1] = "import" THEN Imports ELSE {})

\* C19 as the code has it: the staged import filenames are added for every
\* node of the step import, built-in or not
C19_GatherOutputsImport ==
    gres.op = "gather" =>
        LET n    == gres.node
            tool == graph.tool[n]
            imp  == IF n[1] = "import" THEN Imports ELSE {}
        IN  /\ tool \in {"join", "nop"} => gres.files = UNION Upstream(n) \cup imp
            /\ tool \in {"minimum", "maximum"} =>
                   gres.files = Common(Upstream(n)) \cup imp
            /\ tool \notin builtin => gres.files = EdaOutput(tool, n) \cup imp

\* _gather_outputs was called on a minimum or maximum node over two inputs
\* with different outputs, and returned the filenames they share
C19_Witness ==
    /\ gres.op = "gather"
    /\ graph.tool[gres.node] \in {"minimum", "maximum"}
    /\ Cardinality(Upstream(gres.node)) = 2
    /\ gres.files # {}
    /\ gres.files # UNION Upstream(gres.node)

\* the non-built-in tasks of the steps of the last _check_flowgraph_io call
ToolTasks ==
    {n \in Range(graph.nodes) :
        InSeq(n[1], gres.steps) /\ graph.tool[n] \notin builtin}

\* what task n receives from its upstream task: the outputs the upstream task
\* will leave, or the listing of its outputs directory when its step is not
\* in the step list; nothing for a task without upstream
Received(n) ==
    IF graph.input[n] = <<>> THEN {}
    ELSE IF InSeq(graph.input[n][1][1], gres.steps)
    THEN _gather_outputs("graph", graph.input[n][1])
    ELSE gres.files

\* C20: _check_flowgraph_io returns true if and only if, for every
\* non-built-in task of the step list, every filename of the declared input
\* list of its tool is in the outputs of its upstream task, or in the
\* outputs directory of that task when its step is outside the step list
\* (stated for flowgraphs whose tool tasks have at most one upstream task)
C20_CheckFlowgraphIO ==
    (/\ gres.op = "check_io"
     /\ \A n \in ToolTasks : Len(graph.input[n]) <= 1) =>
        (/\ ~gres.raised
         /\ gres.ok <=>
                \A n \in ToolTasks : EdaInput(graph.tool[n], n) \subseteq Received(n))

(***************************************************************************)
(* Properties of a run on a flow with a dangling input (SpecDangle).       *)
(***************************************************************************)
\* some task of the flow lists an input that is no task of the flow
DanglingInput ==
    \E n \in Nodes : \E i \in 1..Len(Inputs(n)) : Inputs(n)[i] \notin Nodes

\* C21: if some node of the flow lists in its input a (step, index) that is
\* not a declared node of the same flow, run() aborts before it spawns any
\* worker
C21_DanglingInputAborts ==
    DanglingInput => \A n \in Nodes : wpc[n] = "none"

(***************************************************************************)
(* Properties of minimum and maximum (SpecMinmax).  sel.steps and sel.res  *)
(* are the arguments and the result of the last call.                      *)
(***************************************************************************)
\* the one metric of the model
TheMetric == Metrics[1]

\* metric/<step>/<index>/<m>/real of candidate n
Real(n) == sel.c.metric[n][TheMetric][1]

\* candidate n is eligible: its error flag is not set and its metric is
\* within its goal, if it has one
IsEligible(n) ==
    /\ sel.c.flowstatus[n] = Some(0)
    /\ sel.goal[n] # None => Abs(Real(n)) <= sel.goal[n][1]

\* the last call was a call of op
Called(op) == sel.op = op /\ ~sel.res.exc

C23_WinnerIsEligible ==
    (Called("minimum") \/ Called("maximum")) =>
        /\ sel.res.winner # None =>
               /\ InSeq(sel.res.winner[1], sel.steps)
               /\ IsEligible(sel.res.winner[1])
        /\ sel.res.winner = None <=>
               \A i \in 1..Len(sel.steps) : ~IsEligible(sel.steps[i])

\* a selector was called on two inputs, the first one outside its goal, and
\* returned the second
C23_Witness ==
    /\ Called("minimum") \/ Called("maximum")
    /\ Len(sel.steps) = 2
    /\ sel.c.flowstatus[sel.steps[1]] = Some(0)
    /\ ~IsEligible(sel.steps[1])
    /\ sel.res.winner = Some(sel.steps[2])

\* the eligible inputs of the last call
EligibleInputs == {n \in Range(sel.steps) : IsEligible(n)}

\* the smallest and the largest metric value over the eligible inputs
SmallestReal == CHOOSE v \in {Real(n) : n \in EligibleInputs} :
                    \A n \in EligibleInputs : v <= Real(n)

LargestReal == CHOOSE v \in {Real(n) : n \in EligibleInputs} :
                   \A n \in EligibleInputs : v >= Real(n)

\* C24: in minimum/maximum the per-metric min and max used to normalise a
\* metric are exactly the smallest and the largest real value of the metric
\* over the eligible inputs, also when all values are negative, and a
\* metric with non-zero range contributes weight * (real - min) / (max - min)
\* to the score (here: to the score of the winner, the one returned)
C24_MinMaxOverEligible ==
    ((Called("minimum") \/ Called("maximum")) /\ EligibleInputs # {}) =>
        LET elig == Eligible("sel", sel.c, sel.steps)
            n    == sel.res.winner[1]
        IN  /\ MinVal(sel.c, sel.steps, elig, TheMetric) = SmallestReal
            /\ MaxVal(sel.c, sel.steps, elig, TheMetric) = LargestReal
            /\ LargestReal # SmallestReal =>
                   sel.res.num * (LargestReal - SmallestReal) =
                       sel.res.den * ScoreWeight("sel", Picker, n, TheMetric)
                                   * (Real(n) - SmallestReal)

\* the weighted score of eligible input n as a fraction WeightedNum(n) /
\* WeightedDen: weight * (real - min) / (max - min) with the weight of the
\* selecting task and the min and max over the eligible inputs, or
\* weight * max when the range is zero
WeightedDen ==
    IF LargestReal # SmallestReal THEN LargestReal - SmallestReal ELSE 1

WeightedNum(n) ==
    IF LargestReal # SmallestReal
    THEN sel.weight[Picker] * (Real(n) - SmallestReal)
    ELSE sel.weight[Picker] * LargestReal

\* C25: among the eligible inputs minimum returns the one with the lowest
\* weighted score and maximum the one with the highest; of several eligible
\* inputs with the same extreme score the first of the argument list wins;
\* the returned score is the score of the winner
C25_ExtremeScoreWins ==
    ((Called("minimum") \/ Called("maximum")) /\ EligibleInputs # {}) =>
        LET w == sel.res.winner[1]
            k == IndexOf(sel.steps, w)
        IN  /\ sel.res.winner # None
            /\ \A n \in EligibleInputs :
                   IF sel.op = "minimum"
                   THEN WeightedNum(w) <= WeightedNum(n)
                   ELSE WeightedNum(w) >= WeightedNum(n)
            /\ \A i \in 1..(k - 1) :
                   IsEligible(sel.steps[i]) =>
                       WeightedNum(sel.steps[i]) # WeightedNum(w)
            /\ sel.res.num * WeightedDen = sel.res.den * WeightedNum(w)

\* C26: the weight applied to metric m when a candidate input is scored in
\* minimum/maximum is the weight declared on the current (selecting) node,
\* the same for every candidate, not a weight declared on the candidate:
\* the weight the scoring loop reads is that of pick/0, and the returned
\* score is the normalised value of the winner times that weight
C26_WeightOfSelectingNode ==
    ((Called("minimum") \/ Called("maximum")) /\ sel.res.winner # None) =>
        LET elig == Eligible("sel", sel.c, sel.steps)
            lo   == MinVal(sel.c, sel.steps, elig, TheMetric)
            hi   == MaxVal(sel.c, sel.steps, elig, TheMetric)
            w    == sel.res.winner[1]
        IN  /\ \A n \in Range(sel.steps) :
                   ScoreWeight("sel", Picker, n, TheMetric) = sel.weight[Picker]
            /\ IF hi # lo
               THEN sel.res.num * (hi - lo) =
                        sel.res.den * sel.weight[Picker] * (Real(w) - lo)
               ELSE sel.res.num = sel.res.den * sel.weight[Picker] * hi

\* value v satisfies 'op goal'
Satisfies(v, a) ==
    CASE a.op = "<=" -> v <= a.goal
      [] a.op = ">"  -> v > a.goal
      [] OTHER       -> FALSE

\* C27: verify(S, assertion) returns true if and only if, for every (s,i) in
\* S and every 'metric op goal' of the assertion, metric/s/i/metric/real op
\* goal holds (a task bound to verify halts with error = 1 when it returns
\* false)
C27_VerifyChecksAssertion ==
    sel.op = "verify" =>
        (sel.ok <=> \A n \in Range(sel.steps) : Satisfies(Real(n), sel.assertion))

(***************************************************************************)
(* Properties of flowstatus after a run (specification Spec).              *)
(***************************************************************************)
\* run() has returned and every task of the slice ran to its end
AllSucceeded ==
    /\ runpc = "returned"
    /\ slice # {}
    /\ \A n \in slice : wend[n] = "returned"

\* C28: after a run in which every task of the active slice completed
\* successfully, the manifest emitted by each task holds
\* flowstatus/error = 0 for the task and for each of its transitive upstream
\* tasks in the slice, and the parent schema after reconciliation holds
\* flowstatus/error = 0 for every node of the slice, the nodes that are not
\* direct inputs of the last step included.
C28_SuccessRecordedEverywhere ==
    AllSucceeded
    => /\ \A n \in slice : cfg.flowstatus[n] = Some(0)
       /\ \A m \in slice :
             \A n \in ({m} \cup UpstreamOf(m, Len(FlowNodes(flow)))) \cap slice :
                disk[m][1].flowstatus[n] = Some(0)

(***************************************************************************)
(* Properties of the file hashes (specification SpecHash).                 *)
(***************************************************************************)
\* C29: after any sequence of set, add and hash_files calls, the filehash
\* list of a list-typed file parameter is empty or has exactly as many
\* entries as its value list.
C29_FilehashParallelToValue ==
    hs.kind # "" => (hs.filehash = <<>> \/ Len(hs.filehash) = Len(hs.value))

(***************************************************************************)
(* Properties of the hash stage of a task (specification Spec).            *)
(***************************************************************************)
\* C30: when the 'hash' option is set and a freshly computed file hash
\* differs from the filehash recorded for the file, the task halts: it
\* emits no outputs/<design>.pkg.json and finishes with error = 1.
C30_HashMismatchHalts ==
    \A n \in Nodes :
        "mismatch" \in did[n]
        => /\ ~Emitted(n)
           /\ wend[n] # "returned"
           /\ (wpc[n] = "exited" => wbits[n][1] = 1)

(***************************************************************************)
(* Properties of the fields merge_manifest copies (specification           *)
(* SpecManifest).                                                          *)
(***************************************************************************)
\* C31: merge_manifest always overwrites the non-value fields: after a merge
\* that ran to its end, the lock field of the destination parameter equals
\* the lock field of the manifest, whatever the clobber and clear arguments
\* and whatever the destination held before.
C31_FieldsOverwritten ==
    [][(/\ sop'.op = "merge"
        /\ ManifestGet(SchemaType(scfg), sop'.val) # Raised)
       => /\ sop'.key \in DOMAIN scfg'
          /\ scfg'[sop'.key].lock = (IF sop'.ret = PyBool(TRUE) THEN "true" ELSE "false")]_vars

(***************************************************************************)
(* Properties of the input selection (specifications Spec and SpecPass).   *)
(***************************************************************************)
\* the worker of n is past "8. Select inputs" and still holds its schema
PastSelect(n) ==
    wpc[n] \in {"stage", "check", "pre", "exe", "post", "emit", "clrerr", "clract"}
              \cup OutcomeStages

\* C32: after the input-selection step of a task,
\* flowstatus/<step>/<index>/select holds the result of the selection: the
\* input list of the task, in order, for a task bound to join, to nop or to
\* an external tool, and the single winner for minimum and maximum.
C32_SelectHoldsSelection ==
    \A n \in Nodes :
        PastSelect(n)
        => IF FlowTool(flow, n) \in {"minimum", "maximum"}
           THEN /\ Len(wcfg[n].select[n]) = 1
                /\ InSeq(wcfg[n].select[n][1], Inputs(n))
           ELSE (FlowTool(flow, n) \in {"join", "nop"} \/ FlowTool(flow, n) \notin builtin)
                => wcfg[n].select[n] = Inputs(n)

(***************************************************************************)
(* Properties of the manifest fan-in (specification SpecManifest): the     *)
(* fan-in of _runtask is read_manifest(cfgfile, clobber=False), that is    *)
(* merge_manifest with clobber false and clear true, once for each input   *)
(* in the order of the input list.                                         *)
(***************************************************************************)
\* the value field holds no value: null or the empty list
Unset(v) == v \in {PyNone, PyStr(<<"n", "u", "l", "l">>), PyList(<<>>)}

\* C33: manifest fan-in is local-wins: a parameter that has a set value in
\* the schema before a manifest is merged with clobber=false (a boolean set
\* to false included) has the same value after the merge; so a value taken
\* from the first upstream manifest is kept when the later ones are merged.
\* (The manifest of an upstream task is pruned: it holds the parameter only
\* with a value.)
C33_FaninLocalWins ==
    [][(/\ sop'.op = "merge"
        /\ ~sop'.clobber
        /\ sop'.clear
        /\ ~Unset(sop'.val)
        /\ sop'.key \in DOMAIN scfg
        /\ ~Unset(scfg[sop'.key].value))
       => (sop'.key \in DOMAIN scfg' /\ scfg'[sop'.key].value = scfg[sop'.key].value)]_vars

(***************************************************************************)
(* Properties of the run of the executable (specification Spec).           *)
(***************************************************************************)
\* the step ends the worker of n as a halted task: no manifest, error = 1
\* and active = 0 as it exits
HaltsNow(n) ==
    /\ wpc'[n] = "exited"
    /\ wend'[n] = "halted"
    /\ disk'[n] = None
    /\ wbits'[n] = <<1, 0>>
    /\ active'[stepstr(n)] = 0

\* C34: a failure while executing an external tool halts the task: when the
\* configured timeout is exceeded the child is terminated, and when the
\* child exits with a non-zero status while continue is not set, or
\* post_process reports an error, the task emits no manifest and finishes
\* with error = 1 and active = 0; with continue set a non-zero exit alone
\* does not halt the task.
C34_ToolFailureHalts ==
    [][\A n \in Nodes :
          wpc'[n] # wpc[n]
          => /\ wpc[n] \in {"timedout", "overdue", "failed", "postfailed"} => HaltsNow(n)
             /\ wpc[n] = "failedcont" => wpc'[n] = "post"]_vars

(***************************************************************************)
(* Properties of _prune (specification SpecPrune).                         *)
(***************************************************************************)
\* the leaf holds nothing: its value and its defvalue are both empty
EmptyCell(cell, keeplists) ==
    /\ cell.defvalue \in PruneEmpty(keeplists)
    /\ cell.value \in PruneEmpty(keeplists) \cup {"nokey"}

\* C35: for a schema of any nesting depth, _prune returns a copy in which
\* no key 'default' remains at any level, no leaf remains whose value and
\* defvalue are both empty (empty lists counting as empty unless keeplists
\* is true), and no branch without leaves remains.
C35_PruneLeavesNothingEmpty ==
    pr.op = "prune"
    => /\ \A p \in TreeNodes(pr.res) : ~InSeq("default", p)
       /\ \A p \in DOMAIN pr.res.leaves : ~EmptyCell(pr.res.leaves[p], pr.keeplists)
       /\ \A p \in pr.res.branches :
             \E q \in DOMAIN pr.res.leaves : IsPrefix(p, q)

(***************************************************************************)
(* Properties of the shared dictionaries (specification Spec).             *)
(***************************************************************************)
\* the seeding loop has written the entry of node n
Seeded(n) == stepstr(n) \in DOMAIN active /\ stepstr(n) \in DOMAIN error

\* the input the fan-in loop of worker n is at
CurInput(n) == Inputs(n)[wcur[n]]

\* C37: publication order of a successful task.  For every node n of the
\* active slice, active[n] = 0 and error[n] = 0 together imply that the
\* manifest of n is on disk, so a worker in its fan-in loop that reads the
\* error bit 0 of an upstream of the slice finds that upstream's manifest.
C37_PublicationOrder ==
    /\ \A n \in slice :
          Seeded(n) /\ active[stepstr(n)] = 0 /\ error[stepstr(n)] = 0
          => disk[n] # None
    /\ \A n \in slice :
          (wpc[n] = "fanin" /\ wcur[n] <= Len(Inputs(n)) /\ CurInput(n) \in slice
              /\ error[stepstr(CurInput(n))] = 0)
          => disk[CurInput(n)] # None

\* C38: the keys of the shared dictionaries are distinct for distinct
\* nodes, so after the seeding the entry of a node changes only in a step of
\* that node's own worker: no completion or halt of one worker clears the
\* active bit or overwrites the error bit of another node.
C38_NodeKeysDistinct ==
    [][\A n \in Nodes :
          /\ \A m \in Nodes : m # n => stepstr(m) # stepstr(n)
          /\ (Seeded(n) /\ (active'[stepstr(n)] # active[stepstr(n)]
                            \/ error'[stepstr(n)] # error[stepstr(n)]))
             => wpc'[n] # wpc[n]]_vars

\* C40: after the seeding, active[n] changes only from 1 to 0 and error[n]
\* only from 1 to 0, each only in a step of the worker of n, error[n] does
\* not change once active[n] is 0, and the entries of the nodes outside the
\* active slice stay at active = 0 and error = 0.
C40_BitsOneWayOneWriter ==
    [][\A n \in Nodes :
          Seeded(n)
          => /\ active'[stepstr(n)] # active[stepstr(n)]
                => /\ active[stepstr(n)] = 1 /\ active'[stepstr(n)] = 0
                   /\ wpc'[n] # wpc[n]
             /\ error'[stepstr(n)] # error[stepstr(n)]
                => /\ error[stepstr(n)] = 1 /\ error'[stepstr(n)] = 0
                   /\ wpc'[n] # wpc[n]
                   /\ active[stepstr(n)] = 1
             /\ n \notin slice
                => /\ active[stepstr(n)] = 0 /\ active'[stepstr(n)] = 0
                   /\ error[stepstr(n)] = 0 /\ error'[stepstr(n)] = 0]_vars

(***************************************************************************)
(* Termination of a run (specification SpecLive).                          *)
(***************************************************************************)
\* run() has returned or the main process has exited
RunEnded == runpc \in {"returned", "exited"}

\* C36: under fair scheduling, on an acyclic flow whose inputs are all
\* declared nodes and whose tools and hooks terminate, run() eventually
\* returns or exits and every worker that was started has by then set its
\* active bit to 0: no worker waits forever in the upstream poll.
C36_RunTerminates ==
    <>(/\ RunEnded
       /\ \A n \in slice : wpc[n] # "none" => active[stepstr(n)] = 0)

(***************************************************************************)
(* Properties of the read calls (specification SpecRead).                  *)
(***************************************************************************)
\* C39: get, getkeys and getdict are read-only: no call to them, on an
\* existing or a non-existent keypath, adds a key to the schema or changes
\* a field, so getkeys('flowgraph', flow) returns the same steps before and
\* after a get through a key not yet present.
C39_ReadsAreReadOnly ==
    [][gres'.op \in ReadCalls
          => /\ graph' = graph
             /\ Dedup(graph'.nodes) = Dedup(graph.nodes)]_vars

====
